---- MODULE Spec2Model ----
(***************************************************************************)
(* A model of the extraction / normalisation / validation core of          *)
(* tetoolkit: extractor.py (TextExtractor), value_cleaner.py (ValueCleaner)*)
(* and validator.py (ExtractionValidator).                                 *)
(*                                                                         *)
(* Three specifications share the module:                                  *)
(*   Spec          TextExtractor.extract_from_document on one document     *)
(*   SpecClean     ValueCleaner.clean_value applied to raw values          *)
(*   SpecValidate  ExtractionValidator.validate_extractions on one batch   *)
(*                                                                         *)
(* Text is a sequence of one-character strings; positions are 0-based as   *)
(* in Python.  A Python value that may be None is modelled as a sequence   *)
(* of length 0 (None) or 1 (the value).                                    *)
(***************************************************************************)
EXTENDS Integers, Sequences, FiniteSets, TLC

VARIABLES
    \* ---- extractor (Spec) ----
    text,               \* content of the document, load_text_file's result
    active_patterns,    \* config['Extraction']['active_patterns']
    duplicate_mappings, \* config['Extraction']['duplicate_mappings']
    name_config,        \* name_extraction switch and the anchor lists
    pc,                 \* position inside extract_from_document
    all_extractions,    \* the list extract_from_document builds and returns
    calls,              \* log of the extract_with_pattern calls made
    extracted,          \* all_extractions as it was before apply_duplicate_mappings
    \* ---- value cleaner (SpecClean) ----
    new_row,            \* one row: element, value and cleaned_value
    recleaned,          \* clean_value applied to the row's cleaned_value
    clean_pc,           \* "raw", "cleaned" or "recleaned"
    \* ---- validator (SpecValidate) ----
    batch,              \* the frame handed to validate_extractions
    validation_config,  \* the settings of the ExtractionValidator
    clock,              \* the day datetime.now() returns
    validate_pc,        \* "start" or "done"
    result_df,          \* the frame validate_extractions returns
    \* ---- clean_extractions_dataframe (SpecFrame) ----
    raw_df,             \* the frame handed to clean_extractions_dataframe
    reverse_names,      \* its reverse_name_order argument
    frame_pc,           \* "start" or "done"
    cleaned_df,         \* the frame clean_extractions_dataframe returns
    parse_calls,        \* log of the parse_name calls made
    \* ---- validator settings (SpecSettings) ----
    config_file,        \* the file behind config_path: its kind and its Validation table
    settings,           \* the settings of the ExtractionValidator as stored
    settings_pc,        \* "init", "ready" or "done"
    outcome,            \* "returned" or the exception validate_extractions raised
    \* ---- orchestrator (SpecBatch) ----
    plan_folder,        \* the plan folder: whether it exists, and its source folders
    source_idx,         \* the source folder the loop of process_all_sources is at
    orchestrated,       \* self.all_extractions of the orchestrator
    run_state,          \* "start", "loop", "returned" or "raised"
    \* ---- cleaner registry (SpecRegistry) ----
    registry,           \* the module-level dictionary CLEANER_ASSIGNMENTS, as its items
    registry_calls,     \* the calls made on the registry so far
    registry_before,    \* the registry as it was before the last call
    all_assignments     \* the dictionary get_all_assignments returned, in the caller's hands

extract_vars == <<text, active_patterns, duplicate_mappings, name_config,
                  pc, all_extractions, calls, extracted>>

clean_vars == <<new_row, recleaned, clean_pc>>

validate_vars == <<batch, validation_config, clock, validate_pc, result_df>>

frame_vars == <<raw_df, reverse_names, frame_pc, cleaned_df, parse_calls>>

settings_vars == <<config_file, settings, settings_pc, outcome>>

batch_vars == <<plan_folder, source_idx, orchestrated, run_state>>

registry_vars == <<registry, registry_calls, registry_before, all_assignments>>

vars == <<extract_vars, clean_vars, validate_vars, frame_vars, settings_vars, batch_vars, registry_vars>>

(***************************************************************************)
(* Optional values                                                         *)
(***************************************************************************)
None == <<>>
Some(x) == <<x>>
IsNone(o) == o = <<>>
Get(o) == o[1]

SeqToSet(s) == {s[i] : i \in 1..Len(s)}

RECURSIVE Flatten(_)
Flatten(ss) == IF ss = <<>> THEN <<>> ELSE Head(ss) \o Flatten(Tail(ss))

(* text[p] for a 0-based position p *)
CharAt(t, p) == t[p + 1]

(***************************************************************************)
(* Bounds of the model                                                     *)
(***************************************************************************)
MaxSegs == 3

(* The pieces documents are assembled from. *)
Segments ==
    { <<"d", "1">>,                  \* a DOB field with value 1
      <<"D", "2">>,                  \* a DOB field, upper case, value 2
      <<"b", "1">>,                  \* the alternative DOB layout
      <<"N", "A", "b", "D">>,        \* name "Ab" between anchors N and D
      <<"S", ":", "A", "A", "E">>,   \* name "AA" between anchors S and E
      <<"N", "A", "D">> }            \* one-letter name "A" between N and D

RECURSIVE SegLists(_)
SegLists(n) ==
    IF n = 0 THEN {<<>>}
    ELSE LET shorter == SegLists(n - 1)
         IN  shorter \cup {<<s>> \o l : s \in Segments,
                                        l \in {x \in shorter : Len(x) = n - 1}}

Documents == {Flatten(l) : l \in SegLists(MaxSegs)}

(***************************************************************************)
(* Regular expressions of the pattern repository.  A pattern is a literal  *)
(* prefix followed by one character of a class; with group = TRUE the      *)
(* class character is capture group 1.  compiles = FALSE is a pattern that *)
(* re.compile rejects.                                                     *)
(***************************************************************************)
Pattern(pre, cls, group) ==
    [pre |-> pre, cls |-> cls, group |-> group, compiles |-> TRUE]

BadPattern == [pre |-> <<>>, cls |-> {}, group |-> FALSE, compiles |-> FALSE]

P_d  == Pattern(<<"d">>, {"1", "2"}, TRUE)     \* d([12])
P_b  == Pattern(<<"b">>, {"1", "2"}, TRUE)     \* b([12])
P_dw == Pattern(<<"d">>, {"1", "2"}, FALSE)    \* d[12]

(* re.IGNORECASE: both sides are compared after case folding. *)
Fold(c) ==
    CASE c = "D" -> "d"
      [] c = "N" -> "n"
      [] c = "S" -> "s"
      [] c = "E" -> "e"
      [] c = "A" -> "a"
      [] OTHER   -> c

Width(pattern) == Len(pattern.pre) + 1

(* compiled_pattern matches at 0-based position pos *)
MatchAt(t, pattern, pos) ==
    /\ pos + Width(pattern) <= Len(t)
    /\ \A k \in 1..Len(pattern.pre) :
          Fold(CharAt(t, pos + k - 1)) = Fold(pattern.pre[k])
    /\ Fold(CharAt(t, pos + Width(pattern) - 1)) \in {Fold(c) : c \in pattern.cls}

(* compiled_pattern.finditer(text): leftmost, non-overlapping matches *)
RECURSIVE FindFromEnd(_, _, _)
FindFromEnd(t, pattern, pos) ==
    IF pos < 0 THEN <<>>
    ELSE IF MatchAt(t, pattern, pos)
         THEN <<[start |-> pos, end |-> pos + Width(pattern)]>>
              \o FindFromEnd(t, pattern, pos - Width(pattern))
         ELSE FindFromEnd(t, pattern, pos - 1)

FindIterBackwards(t, pattern) == FindFromEnd(t, pattern, Len(t) - Width(pattern))

RECURSIVE FindFrom(_, _, _)
FindFrom(t, pattern, pos) ==
    IF pos + Width(pattern) > Len(t) THEN <<>>
    ELSE IF MatchAt(t, pattern, pos)
         THEN <<[start |-> pos, end |-> pos + Width(pattern)]>>
              \o FindFrom(t, pattern, pos + Width(pattern))
         ELSE FindFrom(t, pattern, pos + 1)

FindIter(t, pattern) == FindFrom(t, pattern, 0)

Slice(t, from, to) == SubSeq(t, from + 1, to)

(* match.group(1) if the pattern has a group, else match.group(0) *)
MatchValue(t, pattern, m) ==
    IF pattern.group THEN Slice(t, m.end - 1, m.end)
    ELSE Slice(t, m.start, m.end)

(***************************************************************************)
(* Extraction records (the dictionaries of extractor.py).  A key that the  *)
(* code does not set is None here, as dict.get would return.               *)
(***************************************************************************)
Record(element, value, order, position, end) ==
    [element |-> element, value |-> value, extraction_order |-> order,
     extraction_position |-> position, end_position |-> end,
     start_anchor |-> None, stop_anchor |-> None, name_prefix |-> None,
     original_element |-> None]

BlankEntry(element) == Record(element, None, None, None, None)

(* extract_with_pattern: order is enumerate's index + 1 *)
ExtractWithPattern(t, pattern, element_name) ==
    IF ~pattern.compiles THEN <<>>
    ELSE LET ms == FindIter(t, pattern)
         IN  [i \in 1..Len(ms) |->
                Record(element_name, Some(MatchValue(t, pattern, ms[i])),
                       Some(i), Some(ms[i].start), Some(ms[i].end))]

(***************************************************************************)
(* The pattern repository handed to TextExtractor (patterns_dict).  An     *)
(* entry is a single pattern ("str"), a list of patterns ("list") or an    *)
(* object of another type ("other").  EIN has no entry.                    *)
(***************************************************************************)
patterns_dict ==
    [e \in {"DOB", "SDOB", "SSN", "ZIP", "FAX", "URL"} |->
        CASE e = "DOB"  -> [type |-> "list", patterns |-> <<P_d, P_b>>]
          [] e = "SDOB" -> [type |-> "str",  patterns |-> <<P_b>>]
          [] e = "SSN"  -> [type |-> "str",  patterns |-> <<P_dw>>]
          [] e = "ZIP"  -> [type |-> "list", patterns |-> <<BadPattern, P_b>>]
          [] e = "FAX"  -> [type |-> "list", patterns |-> <<>>]
          [] e = "URL"  -> [type |-> "other", patterns |-> <<>>]]

(* patterns_dict.get(element_name) *)
PatternsFor(element_name) ==
    IF element_name \in DOMAIN patterns_dict
    THEN Some(patterns_dict[element_name]) ELSE None

(* "if pattern_or_patterns:" -- None and the empty list are falsy *)
Truthy(entry) ==
    /\ ~IsNone(entry)
    /\ (Get(entry).type = "list" => Get(entry).patterns # <<>>)

(* the normalisation of the entry to a list of patterns *)
PatternList(entry) ==
    IF entry.type \in {"str", "list"} THEN entry.patterns ELSE <<>>

(* "if results: break" *)
NeverBreak(results) == FALSE

BreakOnResults(results) == results # <<>>

(* the loop "for pattern in patterns", from the k-th pattern on; returns   *)
(* element_results and the extract_with_pattern calls it made              *)
RECURSIVE TryPatterns(_, _, _, _)
TryPatterns(t, patterns, element_name, k) ==
    IF k > Len(patterns) THEN [results |-> <<>>, calls |-> <<>>]
    ELSE LET results == ExtractWithPattern(t, patterns[k], element_name)
             call == [element |-> element_name, index |-> k,
                      found |-> Len(results)]
         IN  IF BreakOnResults(results)
             THEN [results |-> results, calls |-> <<call>>]
             ELSE LET rest == TryPatterns(t, patterns, element_name, k + 1)
                  IN  [results |-> results \o rest.results,
                       calls |-> <<call>> \o rest.calls]

(* one iteration of "for element_name in active_patterns" *)
ExtractElementNoBlank(t, element_name) ==
    LET entry == PatternsFor(element_name)
    IN  IF Truthy(entry)
        THEN TryPatterns(t, PatternList(Get(entry)), element_name, 1)
        ELSE [results |-> <<>>, calls |-> <<>>]

ExtractElement(t, element_name) ==
    LET entry == PatternsFor(element_name)
    IN  IF Truthy(entry)
        THEN LET tried == TryPatterns(t, PatternList(Get(entry)), element_name, 1)
             IN  [results |-> IF tried.results # <<>> THEN tried.results
                              ELSE <<BlankEntry(element_name)>>,
                  calls |-> tried.calls]
        ELSE [results |-> <<BlankEntry(element_name)>>, calls |-> <<>>]

RECURSIVE ExtractElements(_, _)
ExtractElements(t, elements) ==
    IF elements = <<>> THEN [results |-> <<>>, calls |-> <<>>]
    ELSE LET first == ExtractElement(t, Head(elements))
             rest == ExtractElements(t, Tail(elements))
         IN  [results |-> first.results \o rest.results,
              calls |-> first.calls \o rest.calls]

(***************************************************************************)
(* extract_name.  The regular expression built for an anchor pair is       *)
(*   start [:.,;]* \s* ( [A-Z][a-zA-Z'-]* (?: \s+ [A-Z][a-zA-Z'-]* )* )     *)
(*   \s* (?= stop )                                                        *)
(* matched case-sensitively.  The classes are cut to the characters that   *)
(* documents of the model contain.                                         *)
(***************************************************************************)
Upper == {"N", "S", "D", "E", "A"}
NameChars == Upper \cup {"d", "b", "a", "'", "-"}
Spaces == {" "}
Punct == {":", ".", ",", ";"}

(* the first position >= p whose character is not in cls *)
RECURSIVE Run(_, _, _)
Run(t, p, cls) ==
    IF p < Len(t) /\ CharAt(t, p) \in cls THEN Run(t, p + 1, cls) ELSE p

(* the literal lit occurs at position p *)
LitAt(t, lit, p) ==
    /\ p + Len(lit) <= Len(t)
    /\ \A k \in 1..Len(lit) : CharAt(t, p + k - 1) = lit[k]

(* the positions at which capture group 1, started at p, can end *)
RECURSIVE GroupEnds(_, _)
GroupEnds(t, p) ==
    IF p < Len(t) /\ CharAt(t, p) \in Upper
    THEN LET full == Run(t, p + 1, NameChars)
             next == Run(t, full, Spaces)
         IN  ((p + 1)..full) \cup (IF next > full THEN GroupEnds(t, next) ELSE {})
    ELSE {}

SetMax(S) == CHOOSE x \in S : \A y \in S : y <= x

(* the match of the pair's expression that starts at pos, if there is one: *)
(* the quantifiers are greedy, so the longest group that lets the          *)
(* lookahead succeed is taken                                              *)
NameMatchAt(t, start_anchor, stop_anchor, pos) ==
    IF ~LitAt(t, start_anchor, pos) THEN None
    ELSE LET g == Run(t, Run(t, pos + Len(start_anchor), Punct), Spaces)
             ends == {e \in GroupEnds(t, g) :
                        \E s \in e..Run(t, e, Spaces) : LitAt(t, stop_anchor, s)}
         IN  IF ends = {} THEN None
             ELSE LET e == SetMax(ends)
                      s == SetMax({x \in e..Run(t, e, Spaces) :
                                      LitAt(t, stop_anchor, x)})
                  IN  Some([start |-> pos, end |-> s, gstart |-> g, gend |-> e])

(* re.finditer(pattern, text) for the pair's expression *)
RECURSIVE NameFindFrom(_, _, _, _)
NameFindFrom(t, start_anchor, stop_anchor, pos) ==
    IF pos > Len(t) THEN <<>>
    ELSE LET m == NameMatchAt(t, start_anchor, stop_anchor, pos)
         IN  IF IsNone(m)
             THEN NameFindFrom(t, start_anchor, stop_anchor, pos + 1)
             ELSE <<Get(m)>> \o NameFindFrom(t, start_anchor, stop_anchor,
                                 IF Get(m).end > pos THEN Get(m).end ELSE pos + 1)

MinNameLength == 2

NameRecord(value, order, m, start_anchor, stop_anchor, prefix_type) ==
    [element |-> "NAME", value |-> Some(value), extraction_order |-> Some(order),
     extraction_position |-> Some(m.start), end_position |-> Some(m.end),
     start_anchor |-> Some(start_anchor), stop_anchor |-> Some(stop_anchor),
     name_prefix |-> Some(prefix_type), original_element |-> None]

(* the matches of one pair turned into records, extraction_order counting *)
(* on from the given value                                                 *)
RECURSIVE NameRecords(_, _, _, _, _, _)
NameRecords(t, ms, start_anchor, stop_anchor, prefix_type, extraction_order) ==
    IF ms = <<>> THEN <<>>
    ELSE LET m == Head(ms)
             name_value == Slice(t, m.gstart, m.gend)
         IN  IF Len(name_value) >= MinNameLength
             THEN <<NameRecord(name_value, extraction_order, m,
                               start_anchor, stop_anchor, prefix_type)>>
                  \o NameRecords(t, Tail(ms), start_anchor, stop_anchor,
                                 prefix_type, extraction_order + 1)
             ELSE NameRecords(t, Tail(ms), start_anchor, stop_anchor,
                              prefix_type, extraction_order)

Min(a, b) == IF a <= b THEN a ELSE b

(* each pair continues the numbering where the previous pair stopped *)
RestartCounter(extraction_order, found) == 1

SharedCounter(extraction_order, found) == extraction_order + found

(* the loop over zip(start_anchors, stop_anchors), from pair idx on *)
RECURSIVE ExtractNamePairs(_, _, _, _, _, _)
ExtractNamePairs(t, start_anchors, stop_anchors, name_prefixes, idx, extraction_order) ==
    IF idx > Min(Len(start_anchors), Len(stop_anchors)) THEN <<>>
    ELSE LET prefix_type == IF idx <= Len(name_prefixes)
                            THEN name_prefixes[idx] ELSE "Name"
             ms == NameFindFrom(t, start_anchors[idx], stop_anchors[idx], 0)
             found == NameRecords(t, ms, start_anchors[idx], stop_anchors[idx],
                                  prefix_type, extraction_order)
         IN  found \o ExtractNamePairs(t, start_anchors, stop_anchors,
                          name_prefixes, idx + 1,
                          SharedCounter(extraction_order, Len(found)))

ExtractName(t, start_anchors, stop_anchors, name_prefixes) ==
    ExtractNamePairs(t, start_anchors, stop_anchors, name_prefixes, 1, 1)

(***************************************************************************)
(* apply_duplicate_mappings                                                *)
(***************************************************************************)
RenameFromFirst(extraction, mappings) ==
    /\ extraction.element \in DOMAIN mappings
    /\ ~IsNone(extraction.extraction_order)

(* "element in duplicate_mappings and extraction_order is not None and     *)
(*  extraction_order >= 2"                                                 *)
IsLaterOccurrence(extraction, mappings) ==
    /\ extraction.element \in DOMAIN mappings
    /\ ~IsNone(extraction.extraction_order)
    /\ Get(extraction.extraction_order) >= 2

MapOne(extraction, mappings) ==
    IF IsLaterOccurrence(extraction, mappings)
    THEN [extraction EXCEPT !.element = mappings[extraction.element],
                            !.original_element = Some(extraction.element)]
    ELSE extraction

ApplyDuplicateMappings(extractions, mappings) ==
    IF DOMAIN mappings = {} THEN extractions
    ELSE [i \in 1..Len(extractions) |-> MapOne(extractions[i], mappings)]

(***************************************************************************)
(* deduplicate_extractions                                                 *)
(***************************************************************************)
(* the keys of by_element, in insertion order *)
RECURSIVE ElementsInOrder(_)
ElementsInOrder(extractions) ==
    IF extractions = <<>> THEN <<>>
    ELSE LET e == Head(extractions).element
             NotE(x) == x.element # e
         IN  <<e>> \o ElementsInOrder(SelectSeq(Tail(extractions), NotE))

KeepEveryValue(values_with_extractions) == values_with_extractions

(* unique_values.values(): the first extraction of every distinct value *)
UniqueValues(values_with_extractions) ==
    LET n == Len(values_with_extractions)
        first == {i \in 1..n : \A j \in 1..(i - 1) :
                     values_with_extractions[j].value # values_with_extractions[i].value}
        RECURSIVE Pick(_)
        Pick(i) == IF i > n THEN <<>>
                   ELSE (IF i \in first THEN <<values_with_extractions[i]>> ELSE <<>>)
                        \o Pick(i + 1)
    IN  Pick(1)

(* every extraction of the element kept, the blank ones included *)
KeepBlanksToo(element_extractions) == element_extractions

(* what the loop body appends to deduplicated for one element *)
KeepFirstOnly(element_extractions) ==
    LET HasValue(x) == ~IsNone(x.value)
        values_with_extractions == SelectSeq(element_extractions, HasValue)
    IN  IF values_with_extractions = <<>>
        THEN <<element_extractions[1]>>
        ELSE <<values_with_extractions[1]>>

DeduplicateElement(element_extractions) ==
    LET HasValue(x) == ~IsNone(x.value)
        values_with_extractions == SelectSeq(element_extractions, HasValue)
    IN  IF values_with_extractions = <<>>
        THEN <<element_extractions[1]>>
        ELSE UniqueValues(values_with_extractions)

RECURSIVE DeduplicateGroups(_, _)
DeduplicateGroups(extractions, elements) ==
    IF elements = <<>> THEN <<>>
    ELSE LET IsE(x) == x.element = Head(elements)
         IN  DeduplicateElement(SelectSeq(extractions, IsE))
             \o DeduplicateGroups(extractions, Tail(elements))

DeduplicateExtractions(extractions) ==
    DeduplicateGroups(extractions, ElementsInOrder(extractions))

(***************************************************************************)
(* value_cleaner.py: strings                                               *)
(*                                                                         *)
(* A Python str is a sequence of one-character strings.  The alphabet is   *)
(* ASCII: digits, letters, space and the punctuation the cleaners look at. *)
(***************************************************************************)
DigitChars == <<"0", "1", "2", "3", "4", "5", "6", "7", "8", "9">>
LowerChars == <<"a", "b", "c", "d", "e", "f", "g", "h", "i", "j", "k", "l", "m",
                "n", "o", "p", "q", "r", "s", "t", "u", "v", "w", "x", "y", "z">>
UpperChars == <<"A", "B", "C", "D", "E", "F", "G", "H", "I", "J", "K", "L", "M",
                "N", "O", "P", "Q", "R", "S", "T", "U", "V", "W", "X", "Y", "Z">>

IsDigit(c) == \E i \in 1..10 : DigitChars[i] = c
IsLower(c) == \E i \in 1..26 : LowerChars[i] = c
IsUpper(c) == \E i \in 1..26 : UpperChars[i] = c
(* \s and \w of the re module, on the alphabet *)
IsSpace(c) == c = " "
IsWord(c) == IsDigit(c) \/ IsLower(c) \/ IsUpper(c) \/ c = "_"

(* the characters of the values of the model *)
Alphabet ==
    {DigitChars[i] : i \in 1..10} \cup {LowerChars[i] : i \in 1..26}
    \cup {UpperChars[i] : i \in 1..26}
    \cup {" ", "_", "-", "'", "/", ".", ",", "$", "%", "(", ")", "#", "@", ":", "+"}

(* int(c) for a digit *)
DigitVal(c) == (CHOOSE i \in 1..10 : DigitChars[i] = c) - 1

(* int(s) for a string of digits *)
RECURSIVE ToNat(_)
ToNat(s) ==
    IF s = <<>> THEN 0
    ELSE 10 * ToNat(SubSeq(s, 1, Len(s) - 1)) + DigitVal(s[Len(s)])

(* str(n) for n >= 0 *)
RECURSIVE NatToStr(_)
NatToStr(n) ==
    IF n < 10 THEN <<DigitChars[n + 1]>>
    ELSE NatToStr(n \div 10) \o <<DigitChars[(n % 10) + 1]>>

(* n formatted with leading zeros to at least w digits *)
RECURSIVE ZeroPad(_, _)
ZeroPad(s, w) == IF Len(s) >= w THEN s ELSE ZeroPad(<<"0">> \o s, w)

(* c.upper() *)
ToUpper(c) ==
    IF IsLower(c) THEN UpperChars[CHOOSE i \in 1..26 : LowerChars[i] = c] ELSE c

(* s.upper() *)
UpperCase(s) == [i \in 1..Len(s) |-> ToUpper(s[i])]

(* s.strip() *)
RECURSIVE LStrip(_)
LStrip(s) == IF s # <<>> /\ IsSpace(Head(s)) THEN LStrip(Tail(s)) ELSE s

RECURSIVE RStrip(_)
RStrip(s) ==
    IF s # <<>> /\ IsSpace(s[Len(s)]) THEN RStrip(SubSeq(s, 1, Len(s) - 1)) ELSE s

Strip(s) == RStrip(LStrip(s))

(* re.sub(r'[...]', repl, s) for a character class and a replacement string *)
ReSubClass(class, repl, s) ==
    Flatten([i \in 1..Len(s) |-> IF s[i] \in class THEN repl ELSE <<s[i]>>])

(* re.sub(r'\s+', ' ', s) *)
RECURSIVE CollapseSpaces(_)
CollapseSpaces(s) ==
    IF s = <<>> THEN <<>>
    ELSE IF IsSpace(Head(s))
         THEN <<" ">> \o CollapseSpaces(LStrip(s))
         ELSE <<Head(s)>> \o CollapseSpaces(Tail(s))

(* "needle in hay" *)
Contains(hay, needle) ==
    \E i \in 0..(Len(hay) - Len(needle)) : SubSeq(hay, i + 1, i + Len(needle)) = needle

(* s[p:p+n] == lit, case-insensitively *)
StartsWithAt(s, p, lit) ==
    /\ p + Len(lit) <= Len(s)
    /\ UpperCase(SubSeq(s, p + 1, p + Len(lit))) = UpperCase(lit)

(***************************************************************************)
(* value_cleaner.py: clean_date.  datetime.strptime is modelled by what it *)
(* does: the format is turned into a regular expression, directive by      *)
(* directive, that has to match the whole string; the fields found are     *)
(* then made into a date, which fails for a day the month does not have.   *)
(***************************************************************************)
(* calendar.month_name / month_abbr of the C locale *)
MonthNames ==
    << <<"J", "a", "n", "u", "a", "r", "y">>,
       <<"F", "e", "b", "r", "u", "a", "r", "y">>,
       <<"M", "a", "r", "c", "h">>,
       <<"A", "p", "r", "i", "l">>,
       <<"M", "a", "y">>,
       <<"J", "u", "n", "e">>,
       <<"J", "u", "l", "y">>,
       <<"A", "u", "g", "u", "s", "t">>,
       <<"S", "e", "p", "t", "e", "m", "b", "e", "r">>,
       <<"O", "c", "t", "o", "b", "e", "r">>,
       <<"N", "o", "v", "e", "m", "b", "e", "r">>,
       <<"D", "e", "c", "e", "m", "b", "e", "r">> >>

MonthAbbrs ==
    << <<"J", "a", "n">>,
       <<"F", "e", "b">>,
       <<"M", "a", "r">>,
       <<"A", "p", "r">>,
       <<"M", "a", "y">>,
       <<"J", "u", "n">>,
       <<"J", "u", "l">>,
       <<"A", "u", "g">>,
       <<"S", "e", "p">>,
       <<"O", "c", "t">>,
       <<"N", "o", "v">>,
       <<"D", "e", "c">> >>

(* the list "formats" of clean_date, each format split into its items *)
formats ==
    << <<"%m", "/", "%d", "/", "%Y">>,          \* '%m/%d/%Y'
       <<"%m", "/", "%d", "/", "%y">>,          \* '%m/%d/%y'
       <<"%d", "/", "%m", "/", "%Y">>,          \* '%d/%m/%Y'
       <<"%d", "/", "%m", "/", "%y">>,          \* '%d/%m/%y'
       <<"%Y", "/", "%m", "/", "%d">>,          \* '%Y/%m/%d'
       <<"%y", "/", "%m", "/", "%d">>,          \* '%y/%m/%d'
       <<"%B", " ", "%d", ",", " ", "%Y">>,     \* '%B %d, %Y'
       <<"%b", " ", "%d", ",", " ", "%Y">>,     \* '%b %d, %Y'
       <<"%B", " ", "%d", " ", "%Y">>,          \* '%B %d %Y'
       <<"%b", " ", "%d", " ", "%Y">>,          \* '%b %d %Y'
       <<"%d", " ", "%B", " ", "%Y">>,          \* '%d %B %Y'
       <<"%d", " ", "%b", " ", "%Y">> >>        \* '%d %b %Y'

(* s[p:p+n] is n digits *)
DigitsAt(s, p, n) ==
    /\ p + n <= Len(s)
    /\ \A i \in 1..n : IsDigit(s[p + i])

(* the number of whitespace characters of s from position p on *)
RECURSIVE SpaceRun(_, _)
SpaceRun(s, p) ==
    IF p < Len(s) /\ IsSpace(s[p + 1]) THEN 1 + SpaceRun(s, p + 1) ELSE 0

(* The ways one item of a format matches s at 0-based position p: the set  *)
(* of [n |-> characters consumed, v |-> value found].                      *)
(*   %d  3[0-1]|[1-2]\d|0[1-9]|[1-9]| [1-9]      %m  1[0-2]|0[1-9]|[1-9]   *)
(*   %Y  \d\d\d\d      %y  \d\d      %B, %b  a month name, any case        *)
(*   ' ' \s+           any other character: itself                         *)
Number(s, p, n) == ToNat(SubSeq(s, p + 1, p + n))

ItemMatches(s, p, item) ==
    CASE item = "%d" ->
           (IF DigitsAt(s, p, 2) /\ Number(s, p, 2) \in 1..31
            THEN {[n |-> 2, v |-> Number(s, p, 2)]} ELSE {})
           \cup
           (IF DigitsAt(s, p, 1) /\ s[p + 1] # "0"
            THEN {[n |-> 1, v |-> Number(s, p, 1)]} ELSE {})
           \cup
           (IF p + 2 <= Len(s) /\ s[p + 1] = " " /\ DigitsAt(s, p + 1, 1)
               /\ s[p + 2] # "0"
            THEN {[n |-> 2, v |-> Number(s, p + 1, 1)]} ELSE {})
      [] item = "%m" ->
           (IF DigitsAt(s, p, 2) /\ Number(s, p, 2) \in 1..12
            THEN {[n |-> 2, v |-> Number(s, p, 2)]} ELSE {})
           \cup
           (IF DigitsAt(s, p, 1) /\ s[p + 1] # "0"
            THEN {[n |-> 1, v |-> Number(s, p, 1)]} ELSE {})
      [] item = "%Y" ->
           IF DigitsAt(s, p, 4) THEN {[n |-> 4, v |-> Number(s, p, 4)]} ELSE {}
      [] item = "%y" ->
           IF DigitsAt(s, p, 2) THEN {[n |-> 2, v |-> Number(s, p, 2)]} ELSE {}
      [] item = "%B" ->
           { [n |-> Len(MonthNames[i]), v |-> i] : i \in
               { j \in 1..12 : StartsWithAt(s, p, MonthNames[j]) } }
      [] item = "%b" ->
           { [n |-> 3, v |-> i] : i \in
               { j \in 1..12 : StartsWithAt(s, p, MonthAbbrs[j]) } }
      [] item = " " ->
           { [n |-> k, v |-> 0] : k \in 1..SpaceRun(s, p) }
      [] OTHER ->
           IF p < Len(s) /\ s[p + 1] = item THEN {[n |-> 1, v |-> 0]} ELSE {}

(* The fields a directive sets in the result of the match. *)
SetField(found, item, v) ==
    CASE item = "%d" -> [found EXCEPT !.day = v]
      [] item \in {"%m", "%B", "%b"} -> [found EXCEPT !.month = v]
      [] item = "%Y" -> [found EXCEPT !.year = v]
      [] item = "%y" -> [found EXCEPT !.year = IF v <= 68 THEN 2000 + v ELSE 1900 + v]
      [] OTHER -> found

(* format_regex.match(data_string) with "unconverted data remains" for a   *)
(* match that stops before the end: the set of field values of the matches *)
(* of the whole string (at most one for the formats of clean_date).        *)
RECURSIVE MatchItems(_, _, _, _)
MatchItems(s, p, items, found) ==
    IF items = <<>> THEN (IF p = Len(s) THEN {found} ELSE {})
    ELSE UNION { MatchItems(s, p + m.n, Tail(items), SetField(found, Head(items), m.v))
                 : m \in ItemMatches(s, p, Head(items)) }

IsLeap(year) == year % 4 = 0 /\ (year % 100 # 0 \/ year % 400 = 0)

DaysInMonth(year, month) ==
    CASE month = 2 -> IF IsLeap(year) THEN 29 ELSE 28
      [] month \in {4, 6, 9, 11} -> 30
      [] OTHER -> 31

(* datetime(year, month, day) exists *)
IsDate(year, month, day) ==
    /\ year \in 1..9999
    /\ month \in 1..12
    /\ day \in 1..DaysInMonth(year, month)

(* datetime.strptime(date_str, fmt): None for a ValueError *)
Strptime(date_str, fmt) ==
    LET ms == { f \in MatchItems(date_str, 0, fmt, [year |-> 1900, month |-> 1, day |-> 1])
                : IsDate(f.year, f.month, f.day) }
    IN  IF ms = {} THEN None ELSE Some(CHOOSE f \in ms : TRUE)

(* the loop over formats: the first format that parses *)
RECURSIVE TryFormats(_, _)
TryFormats(date_str, k) ==
    IF k > Len(formats) THEN None
    ELSE LET parsed_date == Strptime(date_str, formats[k])
         IN  IF parsed_date # None
             THEN Some([year |-> Get(parsed_date).year, month |-> Get(parsed_date).month,
                        day |-> Get(parsed_date).day, format |-> k])
             ELSE TryFormats(date_str, k + 1)

DateSeparators == {"/", "-", "."}

(* date_str after strip() and re.sub(r'[/\-\.]', '/', ...) *)
DateStr(raw_value) == ReSubClass(DateSeparators, <<"/">>, Strip(raw_value))

ParseDate(raw_value) == TryFormats(DateStr(raw_value), 1)

(* "if parsed_date.year > 2027" *)
ShiftFrom2027(year) == year >= 2027

NeedsShift(year) == year > 2027

(* parsed_date.strftime('%m/%d/%Y'); the year is printed as the C library  *)
(* prints it, which is four digits for the years 1000..9999                *)
Strftime(year, month, day) ==
    ZeroPad(NatToStr(month), 2) \o <<"/">> \o ZeroPad(NatToStr(day), 2)
        \o <<"/">> \o NatToStr(year)

(* clean_date; parsed_date.replace(year=...) raises for a 29 February that *)
(* the new year does not have, and clean_date then returns None            *)
CleanDate(raw_value) ==
    IF raw_value = <<>> THEN None
    ELSE LET parsed_date == ParseDate(raw_value)
         IN  IF parsed_date = None THEN None
             ELSE LET d == Get(parsed_date)
                  IN  IF NeedsShift(d.year)
                      THEN IF IsDate(d.year - 100, d.month, d.day)
                           THEN Some(Strftime(d.year - 100, d.month, d.day))
                           ELSE None
                      ELSE Some(Strftime(d.year, d.month, d.day))

(***************************************************************************)
(* value_cleaner.py: numbers.  A float is kept as sign, digits and scale:  *)
(* [neg, m, k] is (-1)^neg * m / 10^k, so that -0.0 and 0.0 differ as they *)
(* do in Python.  The model's inputs have few enough digits for the binary *)
(* float to print back as the decimal that was read, are never halfway     *)
(* between two 2-decimal values, and stay inside the range where repr      *)
(* prints positional notation.  inf, nan, exponents and underscores, which *)
(* float() also reads, are not in the inputs.                              *)
(***************************************************************************)
RECURSIVE Pow10(_)
Pow10(k) == IF k = 0 THEN 1 ELSE 10 * Pow10(k - 1)

(* the positions of "." in s *)
Dots(s) == {i \in 1..Len(s) : s[i] = "."}

(* float(s) for an unsigned s: digits with at most one point and at least  *)
(* one digit                                                               *)
UnsignedFloat(s) ==
    LET dots == Dots(s)
        point == IF dots = {} THEN Len(s) + 1 ELSE CHOOSE i \in dots : TRUE
        whole == SubSeq(s, 1, point - 1)
        fraction == SubSeq(s, point + 1, Len(s))
    IN  IF /\ Cardinality(dots) <= 1
           /\ Len(whole) + Len(fraction) >= 1
           /\ \A i \in 1..Len(s) : i = point \/ IsDigit(s[i])
        THEN Some([neg |-> FALSE, m |-> ToNat(whole \o fraction), k |-> Len(fraction)])
        ELSE None

(* float(s): None for a ValueError *)
ParseFloat(s) ==
    IF s = <<>> THEN None
    ELSE IF Head(s) = "-"
         THEN LET x == UnsignedFloat(Tail(s))
              IN  IF x = None THEN None ELSE Some([Get(x) EXCEPT !.neg = TRUE])
    ELSE IF Head(s) = "+" THEN UnsignedFloat(Tail(s))
    ELSE UnsignedFloat(s)

(* -x *)
Negate(x) == [x EXCEPT !.neg = ~x.neg]

(* the value left as it is *)
NotDivided(x) == x

(* x / 100.0 *)
DivideBy100(x) == [x EXCEPT !.k = x.k + 2]

(* the shortest digits and scale of the same value *)
RECURSIVE Shortest(_)
Shortest(x) ==
    IF x.k > 0 /\ x.m % 10 = 0
    THEN Shortest([x EXCEPT !.m = x.m \div 10, !.k = x.k - 1])
    ELSE x

Sign(x) == IF x.neg THEN <<"-">> ELSE <<>>

(* str(x): the shortest decimal, with at least one digit after the point *)
FloatStr(x) ==
    LET y == Shortest(x)
    IN  Sign(y) \o NatToStr(y.m \div Pow10(y.k)) \o <<".">>
        \o (IF y.k = 0 THEN <<"0">> ELSE ZeroPad(NatToStr(y.m % Pow10(y.k)), y.k))

(* the amount printed as str() prints it, without fixed places *)
Unfixed(x) == FloatStr(x)

(* f"{x:.2f}": rounded to the nearest hundredth *)
Fixed2(x) ==
    LET cents == IF x.k <= 2 THEN x.m * Pow10(2 - x.k)
                 ELSE (x.m + 5 * Pow10(x.k - 3)) \div Pow10(x.k - 2)
    IN  Sign(x) \o NatToStr(cents \div 100) \o <<".">> \o ZeroPad(NatToStr(cents % 100), 2)

(* the classes [\$,\s], [()], [%\s] and [,\s] *)
DollarNoise == {"$", ",", " "}
Parens == {"(", ")"}
PercentNoise == {"%", " "}
DecimalNoise == {",", " "}

(* clean_dollar_amount *)
CleanDollarAmount(raw_value) ==
    IF raw_value = <<>> THEN None
    ELSE LET amount_str == ReSubClass(DollarNoise, <<>>, Strip(raw_value))
             is_negative == Contains(raw_value, <<"(">>) \/ Contains(amount_str, <<"-">>)
             amount == ParseFloat(ReSubClass(Parens, <<>>, amount_str))
         IN  IF amount = None THEN None
             ELSE Some(Fixed2(IF is_negative THEN Negate(Get(amount)) ELSE Get(amount)))

(* clean_percentage *)
CleanPercentage(raw_value) ==
    IF raw_value = <<>> THEN None
    ELSE LET pct_str == ReSubClass(PercentNoise, <<>>, Strip(raw_value))
             pct_value == ParseFloat(pct_str)
         IN  IF pct_value = None THEN None
             ELSE Some(FloatStr(DivideBy100(Get(pct_value))))

(* clean_decimal *)
CleanDecimal(raw_value) ==
    IF raw_value = <<>> THEN None
    ELSE LET decimal_str == ReSubClass(DecimalNoise, <<>>, Strip(raw_value))
             decimal_value == ParseFloat(decimal_str)
         IN  IF decimal_value = None THEN None
             ELSE Some(FloatStr(Get(decimal_value)))

(* clean_string: re.sub(r'[^\w\s\-\']', '', ...), upper(), whitespace runs *)
(* to one space, strip(); None for an empty result                         *)
InvalidChars == {c \in Alphabet : ~(IsWord(c) \/ IsSpace(c) \/ c \in {"-", "'"})}

CleanString(raw_value) ==
    IF raw_value = <<>> THEN None
    ELSE LET string_val == Strip(raw_value)
             cleaned == Strip(CollapseSpaces(
                            UpperCase(ReSubClass(InvalidChars, <<>>, string_val))))
         IN  IF cleaned = <<>> THEN None ELSE Some(cleaned)

(***************************************************************************)
(* cleaner_config.py.  Element names and keywords are Python strings, that *)
(* is sequences of characters, because get_cleaner_type upper-cases them   *)
(* and looks for keywords inside them.  CLEANER_ASSIGNMENTS is the set of  *)
(* its <<key, cleaner type>> items.                                        *)
(***************************************************************************)
CLEANER_ASSIGNMENTS ==
    { <<<<"D", "O", "B">>, "date">>,
      <<<<"D", "O", "H">>, "date">>,
      <<<<"D", "O", "T", "E">>, "date">>,
      <<<<"D", "A", "T", "E">>, "date">>,
      <<<<"E", "F", "F", "E", "C", "T", "I", "V", "E", "_", "D", "A", "T", "E">>, "date">>,
      <<<<"S", "T", "A", "R", "T", "_", "D", "A", "T", "E">>, "date">>,
      <<<<"E", "N", "D", "_", "D", "A", "T", "E">>, "date">>,
      <<<<"A", "P", "P", "L", "I", "C", "A", "T", "I", "O", "N", "_", "D", "A", "T", "E">>, "date">>,
      <<<<"I", "S", "S", "U", "E", "_", "D", "A", "T", "E">>, "date">>,
      <<<<"E", "X", "P", "I", "R", "A", "T", "I", "O", "N", "_", "D", "A", "T", "E">>, "date">>,
      <<<<"B", "I", "R", "T", "H", "_", "D", "A", "T", "E">>, "date">>,
      <<<<"H", "I", "R", "E", "_", "D", "A", "T", "E">>, "date">>,
      <<<<"T", "E", "R", "M", "I", "N", "A", "T", "I", "O", "N", "_", "D", "A", "T", "E">>, "date">>,
      <<<<"D", "A", "T", "E", "_", "S", "I", "G", "N", "E", "D">>, "date">>,
      <<<<"A", "M", "O", "U", "N", "T">>, "dollar">>,
      <<<<"S", "A", "L", "A", "R", "Y">>, "dollar">>,
      <<<<"W", "A", "G", "E">>, "dollar">>,
      <<<<"P", "A", "Y", "_", "R", "A", "T", "E">>, "dollar">>,
      <<<<"B", "O", "N", "U", "S">>, "dollar">>,
      <<<<"C", "O", "M", "M", "I", "S", "S", "I", "O", "N">>, "dollar">>,
      <<<<"B", "E", "N", "E", "F", "I", "T", "S">>, "dollar">>,
      <<<<"C", "O", "M", "P", "E", "N", "S", "A", "T", "I", "O", "N">>, "dollar">>,
      <<<<"H", "O", "U", "R", "L", "Y", "_", "R", "A", "T", "E">>, "dollar">>,
      <<<<"A", "N", "N", "U", "A", "L", "_", "S", "A", "L", "A", "R", "Y">>, "dollar">>,
      <<<<"P", "E", "R", "C", "E", "N", "T", "A", "G", "E">>, "percentage">>,
      <<<<"I", "N", "T", "E", "R", "E", "S", "T", "_", "R", "A", "T", "E">>, "percentage">>,
      <<<<"T", "A", "X", "_", "R", "A", "T", "E">>, "percentage">>,
      <<<<"D", "I", "S", "C", "O", "U", "N", "T">>, "percentage">>,
      <<<<"N", "U", "M", "B", "E", "R">>, "decimal">>,
      <<<<"H", "O", "U", "R", "S">>, "decimal">>,
      <<<<"D", "A", "Y", "S">>, "decimal">>,
      <<<<"W", "E", "E", "K", "S">>, "decimal">>,
      <<<<"M", "O", "N", "T", "H", "S">>, "decimal">>,
      <<<<"Y", "E", "A", "R", "S", "_", "D", "U", "R", "A", "T", "I", "O", "N">>, "decimal">>,
      <<<<"Q", "U", "A", "N", "T", "I", "T", "Y">>, "decimal">>,
      <<<<"S", "S", "N">>, "string">>,
      <<<<"E", "M", "P", "L", "O", "Y", "E", "E", "_", "I", "D">>, "string">>,
      <<<<"S", "T", "A", "F", "F", "_", "I", "D">>, "string">>,
      <<<<"P", "E", "R", "S", "O", "N", "N", "E", "L", "_", "I", "D">>, "string">>,
      <<<<"P", "A", "Y", "R", "O", "L", "L", "_", "I", "D">>, "string">>,
      <<<<"M", "E", "M", "B", "E", "R", "_", "I", "D">>, "string">>,
      <<<<"C", "U", "S", "T", "O", "M", "E", "R", "_", "I", "D">>, "string">>,
      <<<<"P", "A", "R", "T", "I", "C", "I", "P", "A", "N", "T", "_", "I", "D">>, "string">>,
      <<<<"S", "T", "U", "D", "E", "N", "T", "_", "I", "D">>, "string">>,
      <<<<"T", "A", "X", "_", "I", "D">>, "string">>,
      <<<<"E", "I", "N">>, "string">>,
      <<<<"D", "R", "I", "V", "E", "R", "S", "_", "L", "I", "C", "E", "N", "S", "E">>, "string">>,
      <<<<"P", "A", "S", "S", "P", "O", "R", "T">>, "string">>,
      <<<<"M", "R", "N">>, "string">>,
      <<<<"I", "N", "S", "U", "R", "A", "N", "C", "E", "_", "I", "D">>, "string">>,
      <<<<"P", "O", "L", "I", "C", "Y", "_", "N", "U", "M", "B", "E", "R">>, "string">>,
      <<<<"G", "R", "O", "U", "P", "_", "N", "U", "M", "B", "E", "R">>, "string">>,
      <<<<"B", "A", "D", "G", "E", "_", "N", "U", "M", "B", "E", "R">>, "string">>,
      <<<<"C", "A", "S", "E", "_", "N", "U", "M", "B", "E", "R">>, "string">>,
      <<<<"R", "E", "F", "E", "R", "E", "N", "C", "E", "_", "N", "U", "M", "B", "E", "R">>, "string">>,
      <<<<"C", "O", "N", "F", "I", "R", "M", "A", "T", "I", "O", "N", "_", "N", "U", "M", "B", "E", "R">>, "string">>,
      <<<<"T", "R", "A", "C", "K", "I", "N", "G", "_", "N", "U", "M", "B", "E", "R">>, "string">>,
      <<<<"O", "R", "D", "E", "R", "_", "N", "U", "M", "B", "E", "R">>, "string">>,
      <<<<"T", "R", "A", "N", "S", "A", "C", "T", "I", "O", "N", "_", "I", "D">>, "string">>,
      <<<<"C", "L", "A", "I", "M", "_", "N", "U", "M", "B", "E", "R">>, "string">>,
      <<<<"A", "P", "P", "L", "I", "C", "A", "T", "I", "O", "N", "_", "N", "U", "M", "B", "E", "R">>, "string">>,
      <<<<"C", "E", "R", "T", "I", "F", "I", "C", "A", "T", "E", "_", "N", "U", "M", "B", "E", "R">>, "string">>,
      <<<<"L", "I", "C", "E", "N", "S", "E", "_", "N", "U", "M", "B", "E", "R">>, "string">>,
      <<<<"P", "E", "R", "M", "I", "T", "_", "N", "U", "M", "B", "E", "R">>, "string">>,
      <<<<"R", "E", "G", "I", "S", "T", "R", "A", "T", "I", "O", "N", "_", "N", "U", "M", "B", "E", "R">>, "string">>,
      <<<<"S", "E", "R", "I", "A", "L", "_", "N", "U", "M", "B", "E", "R">>, "string">>,
      <<<<"P", "H", "O", "N", "E">>, "string">>,
      <<<<"F", "A", "X">>, "string">>,
      <<<<"E", "M", "A", "I", "L">>, "passthrough">>,
      <<<<"Z", "I", "P">>, "string">>,
      <<<<"S", "T", "A", "T", "E">>, "string">>,
      <<<<"N", "A", "M", "E">>, "name">>,
      <<<<"F", "U", "L", "L", "_", "N", "A", "M", "E">>, "name">>,
      <<<<"A", "P", "P", "L", "I", "C", "A", "N", "T", "_", "N", "A", "M", "E">>, "name">>,
      <<<<"E", "M", "P", "L", "O", "Y", "E", "E", "_", "N", "A", "M", "E">>, "name">>,
      <<<<"U", "R", "L">>, "passthrough">>,
      <<<<"A", "D", "D", "R", "E", "S", "S">>, "passthrough">>,
      <<<<"N", "O", "T", "E", "S">>, "passthrough">> }

(* KEYWORD_ASSIGNMENTS in the order the dictionary is iterated *)
KEYWORD_ASSIGNMENTS ==
    << [cleaner_type |-> "date", keywords |->
          << <<"D", "A", "T", "E">>,
             <<"D", "O", "B">>,
             <<"D", "O", "H">>,
             <<"D", "O", "T", "E">>,
             <<"B", "I", "R", "T", "H">>,
             <<"H", "I", "R", "E">>,
             <<"T", "E", "R", "M", "I", "N", "A", "T", "I", "O", "N">>,
             <<"E", "F", "F", "E", "C", "T", "I", "V", "E">>,
             <<"E", "X", "P", "I", "R", "A", "T", "I", "O", "N">>,
             <<"I", "S", "S", "U", "E">> >>],
       [cleaner_type |-> "dollar", keywords |->
          << <<"A", "M", "O", "U", "N", "T">>,
             <<"S", "A", "L", "A", "R", "Y">>,
             <<"W", "A", "G", "E">>,
             <<"P", "A", "Y">>,
             <<"B", "O", "N", "U", "S">>,
             <<"C", "O", "M", "M", "I", "S", "S", "I", "O", "N">>,
             <<"C", "O", "M", "P", "E", "N", "S", "A", "T", "I", "O", "N">>,
             <<"B", "E", "N", "E", "F", "I", "T">> >>],
       [cleaner_type |-> "percentage", keywords |->
          << <<"P", "E", "R", "C", "E", "N", "T">>,
             <<"P", "C", "T">>,
             <<"R", "A", "T", "E">>,
             <<"%">> >>],
       [cleaner_type |-> "decimal", keywords |->
          << <<"N", "U", "M", "B", "E", "R">>,
             <<"H", "O", "U", "R", "S">>,
             <<"D", "A", "Y", "S">>,
             <<"W", "E", "E", "K", "S">>,
             <<"M", "O", "N", "T", "H", "S">>,
             <<"Q", "U", "A", "N", "T", "I", "T", "Y">>,
             <<"C", "O", "U", "N", "T">> >>],
       [cleaner_type |-> "name", keywords |->
          << <<"N", "A", "M", "E">> >>],
       [cleaner_type |-> "string", keywords |->
          << <<"S", "S", "N">>,
             <<"P", "H", "O", "N", "E">>,
             <<"Z", "I", "P">>,
             <<"I", "D">>,
             <<"N", "U", "M", "B", "E", "R">>,
             <<"C", "O", "D", "E">> >>] >>

(* "any(keyword in element_upper for keyword in keywords)", type by type *)
RECURSIVE KeywordType(_, _)
KeywordType(element_upper, k) ==
    IF k > Len(KEYWORD_ASSIGNMENTS) THEN "string"
    ELSE IF \E i \in 1..Len(KEYWORD_ASSIGNMENTS[k].keywords) :
               Contains(element_upper, KEYWORD_ASSIGNMENTS[k].keywords[i])
         THEN KEYWORD_ASSIGNMENTS[k].cleaner_type
         ELSE KeywordType(element_upper, k + 1)

(* the keyword groups consulted before the explicit table *)
KeywordsBeforeTable(assignments, element) ==
    LET element_upper == UpperCase(element)
        explicit == {a \in assignments : a[1] = element_upper}
        by_keyword == {k \in 1..Len(KEYWORD_ASSIGNMENTS) :
                         \E i \in 1..Len(KEYWORD_ASSIGNMENTS[k].keywords) :
                            Contains(element_upper, KEYWORD_ASSIGNMENTS[k].keywords[i])}
    IN  IF by_keyword # {} \/ explicit = {} THEN KeywordType(element_upper, 1)
        ELSE (CHOOSE a \in explicit : TRUE)[2]

(* get_cleaner_type, for a registry holding the given assignments *)
GetCleanerTypeIn(assignments, element) ==
    LET element_upper == UpperCase(element)
        explicit == {a \in assignments : a[1] = element_upper}
    IN  IF explicit # {} THEN (CHOOSE a \in explicit : TRUE)[2]
        ELSE KeywordType(element_upper, 1)

GetCleanerType(element) == GetCleanerTypeIn(CLEANER_ASSIGNMENTS, element)

(***************************************************************************)
(* value_cleaner.py: clean_value                                           *)
(***************************************************************************)
(* the routing of a 'dollar' element by what the raw value contains *)
DollarRoute(raw_value) ==
    IF Contains(raw_value, <<"%">>) THEN CleanPercentage(raw_value)
    ELSE IF Contains(raw_value, <<"$">>) THEN CleanDollarAmount(raw_value)
    ELSE CleanDecimal(raw_value)

PercentageRoute(raw_value) ==
    IF Contains(raw_value, <<"%">>) THEN CleanPercentage(raw_value)
    ELSE CleanDecimal(raw_value)

CleanValue(raw_value, element) ==
    IF raw_value = <<>> THEN None
    ELSE LET cleaner_type == GetCleanerType(element)
         IN  CASE cleaner_type = "date" -> CleanDate(raw_value)
               [] cleaner_type = "dollar" -> DollarRoute(raw_value)
               [] cleaner_type = "percentage" -> PercentageRoute(raw_value)
               [] cleaner_type = "decimal" -> CleanDecimal(raw_value)
               [] cleaner_type = "name" -> Some(UpperCase(Strip(raw_value)))
               [] cleaner_type = "passthrough" -> Some(Strip(raw_value))
               [] OTHER -> CleanString(raw_value)

(***************************************************************************)
(* value_cleaner.py: parse_name.  A dictionary is the sequence of its      *)
(* items in insertion order.  A start anchor is None for a row without     *)
(* one (NaN in the frame) and Some(string) otherwise.                      *)
(***************************************************************************)
(* s.split(): the words between runs of whitespace *)
RECURSIVE SplitWords(_)
SplitWords(s) ==
    LET t == LStrip(s)
        spaces == {i \in 1..Len(t) : IsSpace(t[i])}
        stop == IF spaces = {} THEN Len(t) + 1
                ELSE CHOOSE i \in spaces : \A j \in spaces : i <= j
    IN  IF t = <<>> THEN <<>>
        ELSE <<SubSeq(t, 1, stop - 1)>> \o SplitWords(SubSeq(t, stop, Len(t)))

(* ' '.join(parts) *)
RECURSIVE JoinWords(_)
JoinWords(parts) ==
    IF parts = <<>> THEN <<>>
    ELSE IF Len(parts) = 1 THEN parts[1]
    ELSE parts[1] \o <<" ">> \o JoinWords(Tail(parts))

(* s.split(',', 1): the text before and after the first comma *)
SplitAtComma(s) ==
    LET commas == {i \in 1..Len(s) : s[i] = ","}
        first == CHOOSE i \in commas : \A j \in commas : i <= j
    IN  <<SubSeq(s, 1, first - 1), SubSeq(s, first + 1, Len(s))>>

(* the prefix looked for first is the only one a start anchor gives *)
SpouseBeforeBeneficiary(anchor_upper) ==
    IF Contains(anchor_upper, <<"S", "P", "O", "U", "S", "E">>) THEN <<"S">>
    ELSE IF Contains(anchor_upper, <<"B", "E", "N", "E", "F">>) THEN <<"B">>
    ELSE <<>>

(* the prefix of the component names, from the upper-cased start anchor *)
NamePrefix(anchor_upper) ==
    IF \/ Contains(anchor_upper, <<"B", "E", "N", "E", "F", "I", "C", "I", "A", "R", "Y">>)
       \/ Contains(anchor_upper, <<"B", "E", "N", "E", "F">>)
    THEN <<"B">>
    ELSE IF Contains(anchor_upper, <<"S", "P", "O", "U", "S", "E">>) THEN <<"S">>
    ELSE <<>>

(* "Smith, John" read as family name, given name *)
ReverseOrderParts(name_str) ==
    LET parts == SplitAtComma(name_str)
    IN  [first_name |-> Strip(parts[2]), last_name |-> Strip(parts[1])]

(* every name read as given name first, whatever reverse_order says *)
AlwaysNormalOrder(name_str, reverse_order) == FALSE

(* the branch of parse_name for "Last, First" *)
ReadsReverseOrder(name_str, reverse_order) ==
    reverse_order /\ Contains(name_str, <<",">>)

(* the result dictionary: a component is entered when it is not empty *)
NameResult(prefix, first_name, last_name) ==
    (IF first_name # <<>>
     THEN <<[component_name |-> prefix \o <<"F", "N", "A", "M", "E">>,
             component_value |-> first_name]>>
     ELSE <<>>)
    \o
    (IF last_name # <<>>
     THEN <<[component_name |-> prefix \o <<"L", "N", "A", "M", "E">>,
             component_value |-> last_name]>>
     ELSE <<>>)

(* parse_name; start_anchor.upper() raises for an anchor that is not a     *)
(* string, and the except clause returns the empty dictionary              *)
ParseName(raw_value, start_anchor, reverse_order) ==
    IF raw_value = <<>> THEN <<>>
    ELSE IF start_anchor = None THEN <<>>
    ELSE LET name_str == UpperCase(CollapseSpaces(Strip(raw_value)))
             prefix == IF Get(start_anchor) = <<>> THEN <<>>
                       ELSE NamePrefix(UpperCase(Get(start_anchor)))
             parts == SplitWords(name_str)
         IN  IF ReadsReverseOrder(name_str, reverse_order)
             THEN LET names == ReverseOrderParts(name_str)
                  IN  NameResult(prefix, names.first_name, names.last_name)
             ELSE IF Len(parts) = 0 THEN <<>>
             ELSE IF Len(parts) = 1 THEN NameResult(prefix, parts[1], <<>>)
             ELSE NameResult(prefix, parts[1], JoinWords(Tail(parts)))

(***************************************************************************)
(* value_cleaner.py: clean_extractions_dataframe.  A row holds element,    *)
(* value (None for null), start_anchor and, once cleaned, cleaned_value.   *)
(***************************************************************************)
(* raw_value and not pd.isna(raw_value) *)
HasValue(frame_row) == frame_row.value # None /\ Get(frame_row.value) # <<>>

(* 'NAME' in element.upper() and raw_value and not pd.isna(raw_value) *)
IsNameRow(frame_row) ==
    Contains(UpperCase(frame_row.element), <<"N", "A", "M", "E">>) /\ HasValue(frame_row)

(* the rows appended to all_rows for one row of the frame *)
CleanedRows(frame_row, reverse_name_order) ==
    IF IsNameRow(frame_row)
    THEN LET name_components ==
                 ParseName(Get(frame_row.value), frame_row.start_anchor, reverse_name_order)
         IN  IF name_components # <<>>
             THEN [k \in 1..Len(name_components) |->
                     [frame_row EXCEPT
                        !.element = name_components[k].component_name,
                        !.cleaned_value = Some(name_components[k].component_value)]]
             ELSE <<[frame_row EXCEPT !.cleaned_value = None]>>
    ELSE IF HasValue(frame_row)
         THEN <<[frame_row EXCEPT
                   !.cleaned_value = CleanValue(Get(frame_row.value), frame_row.element)]>>
         ELSE <<[frame_row EXCEPT !.cleaned_value = None]>>

(* the frame built from all_rows *)
CleanExtractionsDataframe(df, reverse_name_order) ==
    Flatten([i \in 1..Len(df) |-> CleanedRows(df[i], reverse_name_order)])

(* the calls of parse_name made for the frame, with their results *)
ParseNameCalls(df, reverse_name_order) ==
    LET Call(frame_row) ==
            [raw_value |-> Get(frame_row.value),
             start_anchor |-> frame_row.start_anchor,
             reverse_order |-> reverse_name_order,
             result |-> ParseName(Get(frame_row.value), frame_row.start_anchor,
                                  reverse_name_order)]
    IN  Flatten([i \in 1..Len(df) |->
                   IF IsNameRow(df[i]) THEN <<Call(df[i])>> ELSE <<>>])

(***************************************************************************)
(* validator.py.  A DataFrame is the sequence of its rows and the index of *)
(* a row is its place in the sequence.  A violation found by a check is an *)
(* event [idx, flag, reason]; the reason is the tuple of the values the    *)
(* f-string of the code interpolates.                                      *)
(***************************************************************************)
Event(idx, flag, reason) == [idx |-> idx, flag |-> flag, reason |-> reason]

(* keyword lists of check_date_logic and check_value_reasonableness *)
DateKeywords ==
    << <<"D", "A", "T", "E">>,
       <<"D", "O", "B">>,
       <<"D", "O", "H">>,
       <<"D", "O", "T", "E">>,
       <<"B", "I", "R", "T", "H">>,
       <<"H", "I", "R", "E">>,
       <<"T", "E", "R", "M", "I", "N", "A", "T", "I", "O", "N">> >>

AmountKeywords ==
    << <<"A", "M", "O", "U", "N", "T">>, <<"S", "A", "L", "A", "R", "Y">>, <<"W", "A", "G", "E">>, <<"P", "A", "Y">> >>

(* any(keyword in element for keyword in keywords) *)
AnyKeyword(element, keywords) ==
    \E i \in 1..Len(keywords) : Contains(element, keywords[i])

IsBirth(element) == Contains(element, <<"D", "O", "B">>) \/ Contains(element, <<"B", "I", "R", "T", "H">>)
IsHire(element) == Contains(element, <<"D", "O", "H">>) \/ Contains(element, <<"H", "I", "R", "E">>)
IsTermination(element) ==
    Contains(element, <<"D", "O", "T", "E">>) \/ Contains(element, <<"T", "E", "R", "M", "I", "N", "A", "T", "I", "O", "N">>)

(* parse_date: '%m/%d/%Y', then '%Y-%m-%d'; None for a null, an empty or   *)
(* an unparseable value                                                    *)
ValidatorParseDate(date_str) ==
    IF date_str = None \/ Get(date_str) = <<>> THEN None
    ELSE LET stripped == Strip(Get(date_str))
             first == Strptime(stripped, <<"%m", "/", "%d", "/", "%Y">>)
         IN  IF first # None THEN first
             ELSE Strptime(stripped, <<"%Y", "-", "%m", "-", "%d">>)

(* comparison of two datetimes *)
DateLess(a, b) ==
    \/ a.year < b.year
    \/ a.year = b.year /\ a.month < b.month
    \/ a.year = b.year /\ a.month = b.month /\ a.day < b.day

(* the date elements of a document: rows whose upper-cased element holds a *)
(* date keyword and whose cleaned value parses                             *)
DateElementsOf(document_extractions) ==
    LET IsDated(x) ==
            /\ AnyKeyword(UpperCase(x.row.element), DateKeywords)
            /\ ValidatorParseDate(x.row.cleaned_value) # None
        dated == SelectSeq(document_extractions, IsDated)
    IN  [i \in 1..Len(dated) |->
            [idx |-> dated[i].idx,
             element |-> UpperCase(dated[i].row.element),
             date |-> Get(ValidatorParseDate(dated[i].row.cleaned_value)),
             value |-> dated[i].row.cleaned_value]]

(* the three comparisons made for one ordered pair of date elements *)
DateOrderWithin(data1, data2) ==
    LET violation == <<Event(data1.idx, "date_logic_violation",
                             <<data1.element, data1.value, data2.element, data2.value>>)>>
        late == ~DateLess(data1.date, data2.date)
    IN  (IF IsBirth(data1.element) /\ IsHire(data2.element) /\ late
         THEN violation ELSE <<>>)
        \o (IF IsBirth(data1.element) /\ IsTermination(data2.element) /\ late
            THEN violation ELSE <<>>)
        \o (IF IsHire(data1.element) /\ IsTermination(data2.element) /\ late
            THEN violation ELSE <<>>)

(* check_date_logic *)
CheckDateLogic(document_extractions, config) ==
    IF ~config.enable_date_logic THEN <<>>
    ELSE LET date_elements == DateElementsOf(document_extractions)
             n == Len(date_elements)
         IN  Flatten([i \in 1..n |->
                 Flatten([j \in 1..n |->
                     IF i = j THEN <<>>
                     ELSE DateOrderWithin(date_elements[i], date_elements[j])])])

(* the rows left in the order of the frame *)
FrameOrder(document_extractions) == document_extractions

(* sort_values('extraction_order'): ascending, rows without an order last, *)
(* rows with equal orders in the order of the frame (the sort numpy uses   *)
(* for a document of fewer than 17 rows is an insertion sort)              *)
SortByExtractionOrder(document_extractions) ==
    LET n == Len(document_extractions)
        HasOrder(i) == document_extractions[i].row.extraction_order # None
        OrderOf(i) == Get(document_extractions[i].row.extraction_order)
        Before(j, i) ==
            \/ HasOrder(j) /\ ~HasOrder(i)
            \/ HasOrder(j) /\ HasOrder(i) /\ OrderOf(j) < OrderOf(i)
            \/ (HasOrder(j) <=> HasOrder(i))
               /\ (HasOrder(i) => OrderOf(j) = OrderOf(i)) /\ j < i
        Rank(i) == Cardinality({j \in 1..n : Before(j, i)}) + 1
    IN  [r \in 1..n |-> document_extractions[CHOOSE i \in 1..n : Rank(i) = r]]

Abs(x) == IF x < 0 THEN -x ELSE x

(* the loop of check_within_document_gaps over the sorted rows *)
RECURSIVE GapsFrom(_, _, _, _)
GapsFrom(sorted_df, k, prev_position, config) ==
    IF k > Len(sorted_df) THEN <<>>
    ELSE LET position == sorted_df[k].row.extraction_position
         IN  IF position = None THEN GapsFrom(sorted_df, k + 1, prev_position, config)
             ELSE (IF prev_position # None
                      /\ Abs(Get(position) - Get(prev_position))
                            > config.within_document_gap_threshold
                   THEN <<Event(sorted_df[k].idx, "within_document_position_gap",
                                <<Abs(Get(position) - Get(prev_position)),
                                  Get(prev_position), Get(position)>>)>>
                   ELSE <<>>)
                  \o GapsFrom(sorted_df, k + 1, position, config)

(* the gaps looked for whatever the switch says *)
GapsWhateverTheSwitch(document_extractions, config) ==
    GapsFrom(SortByExtractionOrder(document_extractions), 1, None, config)

(* check_within_document_gaps *)
CheckWithinDocumentGaps(document_extractions, config) ==
    IF ~config.enable_within_document_gaps THEN <<>>
    ELSE GapsFrom(SortByExtractionOrder(document_extractions), 1, None, config)

(* calculate_positional_statistics, for one (source, element) key: the     *)
(* positions of the group, None for a group of fewer than 5 positions      *)
PositionsOf(df, source, element) ==
    LET InGroup(r) == r.source = source /\ r.element = element
                      /\ r.extraction_position # None
        group == SelectSeq(df, InGroup)
    IN  [i \in 1..Len(group) |-> Get(group[i].extraction_position)]

RECURSIVE SumSeq(_)
SumSeq(xs) == IF xs = <<>> THEN 0 ELSE Head(xs) + SumSeq(Tail(xs))

(* statistics for every group, however few positions it has *)
StatisticsOfAnyGroup(df, source, element) == Some(PositionsOf(df, source, element))

CalculatePositionalStatistics(df, source, element) ==
    LET positions == PositionsOf(df, source, element)
    IN  IF Len(positions) >= 5 THEN Some(positions) ELSE None

(* "std > 0 and abs((position - mean) / std) > threshold" in integers:     *)
(* with n positions of sum S and Q the sum of (n*x - S)^2, the mean is     *)
(* S/n, the sample std is sqrt(Q / (n*n*(n-1))) and the z-score of p is    *)
(* |n*p - S| * sqrt(n-1) / sqrt(Q); the threshold is the fraction num/den  *)
IsOutlier(position, positions, threshold) ==
    LET n == Len(positions)
        S == SumSeq(positions)
        Q == SumSeq([i \in 1..n |-> (n * positions[i] - S) * (n * positions[i] - S)])
        d == n * position - S
    IN  /\ Q > 0
        /\ d * d * (n - 1) * threshold.den * threshold.den
              > threshold.num * threshold.num * Q

(* check_positional_outliers *)
CheckPositionalOutliers(row, idx, df, config) ==
    IF ~config.enable_positional_outliers THEN <<>>
    ELSE IF row.extraction_position = None THEN <<>>
    ELSE LET stats == CalculatePositionalStatistics(df, row.source, row.element)
         IN  IF stats = None THEN <<>>
             ELSE IF IsOutlier(Get(row.extraction_position), Get(stats),
                               config.positional_outlier_threshold)
                  THEN <<Event(idx, "positional_outlier", <<Get(row.extraction_position)>>)>>
                  ELSE <<>>

(* the flag on every record that is not a first extraction *)
FlagUnlessFirst(row, idx) ==
    IF row.extraction_order # Some(1)
    THEN <<Event(idx, "multiple_extractions", <<row.extraction_order, row.element>>)>>
    ELSE <<>>

(* the flag only from the third extraction on *)
FlagFromThird(row, idx) ==
    IF row.extraction_order # None /\ Get(row.extraction_order) > 2
    THEN <<Event(idx, "multiple_extractions", <<Get(row.extraction_order), row.element>>)>>
    ELSE <<>>

(* check_multiple_extractions *)
CheckMultipleExtractions(row, idx) ==
    IF row.extraction_order # None /\ Get(row.extraction_order) > 1
    THEN <<Event(idx, "multiple_extractions", <<Get(row.extraction_order), row.element>>)>>
    ELSE <<>>

(* date + timedelta(days=1) *)
NextDay(date) ==
    IF date.day < DaysInMonth(date.year, date.month)
    THEN [date EXCEPT !.day = date.day + 1]
    ELSE IF date.month < 12
         THEN [date EXCEPT !.month = date.month + 1, !.day = 1]
         ELSE [year |-> date.year + 1, month |-> 1, day |-> 1]

RECURSIVE AddDays(_, _)
AddDays(date, days) == IF days = 0 THEN date ELSE AddDays(NextDay(date), days - 1)

(* value < 0 and value > n for a float value and an integer n *)
FloatNegative(x) == x.neg /\ x.m > 0
FloatGreater(x, n) == ~x.neg /\ x.m > n * Pow10(x.k)

CommaAndDollar == {",", "$"}
DashAndSpace == {"-", " "}

InvalidSsnPatterns ==
    { <<"0", "0", "0", "0", "0", "0", "0", "0", "0">>,
      <<"1", "2", "3", "4", "5", "6", "7", "8", "9">>,
      <<"1", "1", "1", "1", "1", "1", "1", "1", "1">>,
      <<"2", "2", "2", "2", "2", "2", "2", "2", "2">>,
      <<"3", "3", "3", "3", "3", "3", "3", "3", "3">>,
      <<"4", "4", "4", "4", "4", "4", "4", "4", "4">>,
      <<"5", "5", "5", "5", "5", "5", "5", "5", "5">>,
      <<"6", "6", "6", "6", "6", "6", "6", "6", "6">>,
      <<"7", "7", "7", "7", "7", "7", "7", "7", "7">>,
      <<"8", "8", "8", "8", "8", "8", "8", "8", "8">>,
      <<"9", "9", "9", "9", "9", "9", "9", "9", "9">> }

(* the date checks of check_value_reasonableness; a parsed date is at      *)
(* midnight, so it is after now + tolerance exactly when its day is after  *)
(* the day of now + tolerance                                              *)
DateReasonableness(element, cleaned_value, idx, config, now) ==
    IF ~AnyKeyword(element, DateKeywords) THEN <<>>
    ELSE LET parsed_date == ValidatorParseDate(Some(cleaned_value))
         IN  IF parsed_date = None THEN <<>>
             ELSE (IF DateLess(AddDays(now, config.date_future_tolerance_days),
                               Get(parsed_date))
                   THEN <<Event(idx, "date_in_future", <<cleaned_value>>)>>
                   ELSE <<>>)
                  \o (IF IsBirth(element) /\ Get(parsed_date).year < 1900
                      THEN <<Event(idx, "date_too_old", <<cleaned_value>>)>>
                      ELSE <<>>)

(* the amount checks; a value float() rejects is passed over *)
AmountReasonableness(element, cleaned_value, raw_value, idx) ==
    IF ~AnyKeyword(element, AmountKeywords) THEN <<>>
    ELSE LET value == ParseFloat(Strip(ReSubClass(CommaAndDollar, <<>>, cleaned_value)))
         IN  IF value = None THEN <<>>
             ELSE (IF FloatNegative(Get(value))
                      /\ ~(raw_value # None /\ Contains(Get(raw_value), <<"(">>))
                   THEN <<Event(idx, "negative_amount", <<cleaned_value>>)>>
                   ELSE <<>>)
                  \o (IF Contains(element, <<"S", "A", "L", "A", "R", "Y">>)
                         \/ Contains(element, <<"W", "A", "G", "E">>)
                      THEN IF FloatGreater(Get(value), 10000000)
                           THEN <<Event(idx, "amount_too_high", <<cleaned_value>>)>>
                           ELSE IF FloatNegative(Get(value))
                                THEN <<Event(idx, "negative_salary", <<cleaned_value>>)>>
                                ELSE <<>>
                      ELSE <<>>)

(* the percentage check *)
PercentageReasonableness(element, cleaned_value, idx) ==
    IF ~(Contains(element, <<"P", "E", "R", "C", "E", "N", "T">>) \/ Contains(element, <<"P", "C", "T">>)
         \/ Contains(element, <<"R", "A", "T", "E">>))
    THEN <<>>
    ELSE LET value == ParseFloat(Strip(cleaned_value))
         IN  IF value # None /\ (FloatNegative(Get(value)) \/ FloatGreater(Get(value), 1))
             THEN <<Event(idx, "percentage_out_of_range", <<cleaned_value>>)>>
             ELSE <<>>

(* the SSN checks: length first, then the list of invalid patterns *)
SsnReasonableness(element, cleaned_value, idx) ==
    IF ~Contains(element, <<"S", "S", "N">>) THEN <<>>
    ELSE LET ssn_str == ReSubClass(DashAndSpace, <<>>, cleaned_value)
         IN  IF Len(ssn_str) # 9
             THEN <<Event(idx, "invalid_ssn_length", <<cleaned_value>>)>>
             ELSE IF ssn_str \in InvalidSsnPatterns
                  THEN <<Event(idx, "invalid_ssn_pattern", <<cleaned_value>>)>>
                  ELSE <<>>

(* check_value_reasonableness *)
CheckValueReasonableness(row, idx, config, now) ==
    IF ~config.enable_value_reasonableness THEN <<>>
    ELSE IF row.cleaned_value = None THEN <<>>
    ELSE LET element == UpperCase(row.element)
             cleaned_value == Get(row.cleaned_value)
         IN  DateReasonableness(element, cleaned_value, idx, config, now)
             \o AmountReasonableness(element, cleaned_value, row.value, idx)
             \o PercentageReasonableness(element, cleaned_value, idx)
             \o SsnReasonableness(element, cleaned_value, idx)

(* result_df.at[idx, 'flags'] + flags, over the events of one row *)
FlagsOf(events, idx) ==
    LET mine == SelectSeq(events, LAMBDA e : e.idx = idx)
    IN  [i \in 1..Len(mine) |-> mine[i].flag]

(* the reasons of a pass put in place of the ones already there *)
DictReplace(dict, key, value) == <<[key |-> key, value |-> value]>>

(* dict.update: the value of a key already there is replaced in place, a   *)
(* new key goes to the end                                                 *)
DictUpdate(dict, key, value) ==
    IF \E i \in 1..Len(dict) : dict[i].key = key
    THEN [i \in 1..Len(dict) |->
            IF dict[i].key = key THEN [key |-> key, value |-> value] ELSE dict[i]]
    ELSE Append(dict, [key |-> key, value |-> value])

RECURSIVE ReasonsFrom(_, _, _)
ReasonsFrom(events, idx, dict) ==
    IF events = <<>> THEN dict
    ELSE ReasonsFrom(Tail(events), idx,
                     IF Head(events).idx = idx
                     THEN DictUpdate(dict, Head(events).flag, Head(events).reason)
                     ELSE dict)

ReasonsOf(events, idx) == ReasonsFrom(events, idx, <<>>)

(* ', '.join(x) if x else '', as the pieces of the string *)
RECURSIVE JoinFlags(_)
JoinFlags(x) ==
    IF x = <<>> THEN <<>>
    ELSE IF Len(x) = 1 THEN x
    ELSE <<Head(x), ", ">> \o JoinFlags(Tail(x))

(* "if len(row['flags']) > 0: confidence = 'LOW'", on a column of 'HIGH' *)
AlwaysHigh(flags) == "HIGH"

ConfidenceOf(flags) == IF Len(flags) > 0 THEN "LOW" ELSE "HIGH"

(* the rows of the frame with their index *)
Indexed(df) == [i \in 1..Len(df) |-> [idx |-> i, row |-> df[i]]]

(* a group of groupby(['source', 'filename']): the rows of one document *)
DocGroup(df, source, filename) ==
    SelectSeq(Indexed(df), LAMBDA x : x.row.source = source /\ x.row.filename = filename)

(* the loop over the documents: date logic, then gaps, for each document.  *)
(* A document is visited where its first row stands; the rows a document   *)
(* flags are its own, so the order of the visits does not show.            *)
DocumentEvents(df, config) ==
    Flatten([i \in 1..Len(df) |->
        IF \E j \in 1..(i - 1) : df[j].source = df[i].source
                                /\ df[j].filename = df[i].filename
        THEN <<>>
        ELSE LET doc_group == DocGroup(df, df[i].source, df[i].filename)
             IN  CheckDateLogic(doc_group, config)
                 \o CheckWithinDocumentGaps(doc_group, config)])

(* the loop over the rows: outliers, multiple extractions, reasonableness *)
RowEvents(df, config, now) ==
    Flatten([i \in 1..Len(df) |->
        CheckPositionalOutliers(df[i], i, df, config)
        \o CheckMultipleExtractions(df[i], i)
        \o CheckValueReasonableness(df[i], i, config, now)])

AllEvents(df, config, now) == DocumentEvents(df, config) \o RowEvents(df, config, now)

(* validate_extractions on a frame that is not empty *)
ValidateExtractions(df, config, now) ==
    LET events == AllEvents(df, config, now)
    IN  [i \in 1..Len(df) |->
            [source |-> df[i].source, filename |-> df[i].filename,
             element |-> df[i].element, value |-> df[i].value,
             cleaned_value |-> df[i].cleaned_value,
             extraction_order |-> df[i].extraction_order,
             extraction_position |-> df[i].extraction_position,
             confidence |-> ConfidenceOf(FlagsOf(events, i)),
             flags |-> JoinFlags(FlagsOf(events, i)),
             flag_reasons |-> ReasonsOf(events, i)]]

(***************************************************************************)
(* Batches handed to validate_extractions                                  *)
(***************************************************************************)
Row(element, value, cleaned_value, order, position) ==
    [element |-> element, value |-> value, cleaned_value |-> cleaned_value,
     extraction_order |-> order, extraction_position |-> position]

DOB == <<"D", "O", "B">>
DOH == <<"D", "O", "H">>
DOTE == <<"D", "O", "T", "E">>
SALARY == <<"S", "A", "L", "A", "R", "Y">>
TAX_RATE == <<"T", "A", "X", "_", "R", "A", "T", "E">>
PAY_RATE == <<"P", "A", "Y", "_", "R", "A", "T", "E">>
SSN == <<"S", "S", "N">>
FNAME == <<"F", "N", "A", "M", "E">>

(* a row with the same raw and cleaned value *)
Same(element, v, order, position) == Row(element, Some(v), Some(v), Some(order), Some(position))

(* the null record of an element nothing was extracted for *)
NullRow(element) == Row(element, None, None, None, None)

(* the rows of one document *)
DocumentRows ==
    { \* dates in order
      << Same(DOB, <<"0", "1", "/", "1", "5", "/", "1", "9", "9", "0">>, 1, 10), Same(DOH, <<"0", "6", "/", "0", "1", "/", "2", "0", "1", "0">>, 1, 50),
         Same(DOTE, <<"2", "0", "2", "0", "-", "0", "3", "-", "3", "1">>, 1, 90) >>,
      \* birth after hire and after termination, hire after termination
      << Same(DOB, <<"0", "1", "/", "1", "5", "/", "1", "9", "9", "0">>, 1, 10), Same(DOH, <<"0", "1", "/", "1", "5", "/", "1", "9", "8", "0">>, 1, 50),
         Same(DOTE, <<"0", "1", "/", "0", "1", "/", "1", "9", "7", "0">>, 1, 90) >>,
      \* hire on the day of birth
      << Same(DOH, <<"0", "1", "/", "1", "5", "/", "1", "9", "9", "0">>, 1, 10), Same(DOB, <<"0", "1", "/", "1", "5", "/", "1", "9", "9", "0">>, 1, 50) >>,
      \* a birth date before 1900 and a second one far down the document
      << Same(DOB, <<"0", "1", "/", "1", "5", "/", "1", "8", "9", "0">>, 1, 10), Same(DOB, <<"0", "2", "/", "2", "0", "/", "1", "9", "8", "5">>, 2, 3000) >>,
      \* dates after today
      << Same(DOB, <<"1", "1", "/", "0", "4", "/", "2", "0", "2", "6">>, 1, 10), Same(DOH, <<"1", "2", "/", "1", "5", "/", "2", "0", "2", "6">>, 1, 30) >>,
      \* amounts
      << Row(SALARY, Some(<<"-", "5">>), Some(<<"-", "5", ".", "0">>), Some(1), Some(10)),
         Row(SALARY, Some(<<"(", "$", "5", ")">>), Some(<<"-", "5", ".", "0", "0">>), Some(2), Some(40)),
         Row(SALARY, Some(<<"$", "2", "0", ",", "0", "0", "0", ",", "0", "0", "0">>), Some(<<"2", "0", "0", "0", "0", "0", "0", "0", ".", "0", "0">>), Some(3), Some(70)) >>,
      \* rates
      << Row(TAX_RATE, Some(<<"1", "5", "0", "%">>), Some(<<"1", ".", "5">>), Some(1), Some(10)),
         Row(TAX_RATE, Some(<<"5", "0", "%">>), Some(<<"0", ".", "5">>), Some(2), Some(20)),
         Row(PAY_RATE, Some(<<"$", "2", "5">>), Some(<<"2", "5", ".", "0", "0">>), Some(1), Some(2500)) >>,
      \* social security numbers
      << Same(SSN, <<"1", "2", "3", "-", "4", "5", "-", "6", "7", "8", "9">>, 1, 10), Same(SSN, <<"0", "7", "8", "-", "0", "5", "-", "1", "1", "2", "0">>, 2, 20),
         Same(SSN, <<"1", "2", "3", "-", "4", "5", "-", "6", "7", "8">>, 3, 30) >>,
      \* social security numbers with a letter, with spaces, of ten digits
      << Same(SSN, <<"1", "2", "3", "4", "5", "6", "7", "8", "A">>, 1, 10), Same(SSN, <<"1", "1", "1", " ", "1", "1", " ", "1", "1", "1", "1">>, 2, 20),
         Same(SSN, <<"1", "2", "3", "4", "5", "6", "7", "8", "9", "0">>, 3, 30) >>,
      \* a second birth date that did not clean, far down the document
      << Same(DOB, <<"0", "1", "/", "1", "5", "/", "1", "9", "9", "0">>, 1, 10),
         Row(DOB, Some(<<"n", "/", "a">>), None, Some(2), Some(3000)), NullRow(DOH) >>,
      \* nothing extracted, and a value that did not clean
      << NullRow(DOB), Row(DOH, Some(<<"s", "o", "o", "n">>), None, Some(1), Some(5)),
         Same(FNAME, <<"J", "O", "H", "N">>, 1, 60) >>,
      \* one clean row
      << Same(FNAME, <<"J", "O", "H", "N">>, 1, 10) >> }

(* the positions of one element in a series of documents of one source *)
PositionSeries ==
    { <<>>,
      <<10, 10, 10, 10, 10>>,
      <<10, 12, 11, 10, 100>>,
      <<40, 10, 10, 10>>,
      <<10, 10, 10, 10, 10, 10, 10, 10, 10, 10, 20>> }

InFile(rows, source, filename) ==
    [i \in 1..Len(rows) |->
        [source |-> source, filename |-> filename, element |-> rows[i].element,
         value |-> rows[i].value, cleaned_value |-> rows[i].cleaned_value,
         extraction_order |-> rows[i].extraction_order,
         extraction_position |-> rows[i].extraction_position]]

SeriesFiles ==
    << "s01.txt", "s02.txt", "s03.txt", "s04.txt", "s05.txt", "s06.txt",
       "s07.txt", "s08.txt", "s09.txt", "s10.txt", "s11.txt" >>

SeriesRows(positions) ==
    [i \in 1..Len(positions) |->
        [source |-> "forms", filename |-> SeriesFiles[i], element |-> FNAME,
         value |-> Some(<<"J", "O", "H", "N">>), cleaned_value |-> Some(<<"J", "O", "H", "N">>),
         extraction_order |-> Some(1), extraction_position |-> Some(positions[i])]]

(* a batch: one document, a second document or none, and a series *)
SecondDocuments ==
    { <<>>,
      << Same(FNAME, <<"J", "O", "H", "N">>, 1, 10) >>,
      << Same(DOH, <<"0", "1", "/", "1", "5", "/", "1", "9", "8", "0">>, 1, 50),
         Same(DOB, <<"0", "1", "/", "1", "5", "/", "1", "9", "9", "0">>, 1, 10) >> }

Batches ==
    { InFile(a, "forms", "a.txt") \o InFile(b, "forms", "b.txt") \o SeriesRows(p) :
        a \in DocumentRows \cup {<<>>}, b \in SecondDocuments,
        p \in PositionSeries }

(* the settings of ExtractionValidator: the defaults of __init__, each     *)
(* check switched off in turn, and thresholds a config file sets           *)
DefaultConfig ==
    [enable_date_logic |-> TRUE, enable_positional_outliers |-> TRUE,
     enable_within_document_gaps |-> TRUE, enable_value_reasonableness |-> TRUE,
     positional_outlier_threshold |-> [num |-> 3, den |-> 1],
     within_document_gap_threshold |-> 2000,
     date_future_tolerance_days |-> 0]

ValidationConfigs ==
    { [DefaultConfig EXCEPT !.enable_date_logic = a,
                            !.enable_positional_outliers = b,
                            !.enable_within_document_gaps = c,
                            !.enable_value_reasonableness = d] :
        a \in BOOLEAN, b \in BOOLEAN, c \in BOOLEAN, d \in BOOLEAN }
    \cup
    { [DefaultConfig EXCEPT !.positional_outlier_threshold = t,
                            !.within_document_gap_threshold = g,
                            !.date_future_tolerance_days = f] :
        t \in {[num |-> 3, den |-> 1], [num |-> 3, den |-> 2]},
        g \in {2000, 25}, f \in {0, 30} }
    \cup
    { [DefaultConfig EXCEPT !.positional_outlier_threshold = [num |-> 1, den |-> 1]] }

(* datetime.now(), as a date *)
Clocks == { [year |-> 2026, month |-> 11, day |-> 3],
            [year |-> 2026, month |-> 12, day |-> 14] }

(***************************************************************************)
(* Raw values handed to clean_value                                        *)
(***************************************************************************)
DayMonthTokens ==
    { <<"1">>,    \* '1'
      <<"0", "2">>,    \* '02'
      <<"1", "2">>,    \* '12'
      <<"1", "5">>,    \* '15'
      <<"2", "9">>,    \* '29'
      <<"3", "1">> }    \* '31'

TwoDigitYears == {ZeroPad(NatToStr(n), 2) : n \in 0..99}

FourDigitYears ==
    {NatToStr(n) : n \in {1900, 1928, 2000, 2027, 2028, 2068, 2100, 2127, 2128, 2400}}

YearTokens == TwoDigitYears \cup FourDigitYears

(* day, month and year tokens in both orders, with each separator *)
NumericDates ==
    { a \o <<sep>> \o b \o <<sep>> \o y :
        a \in DayMonthTokens, b \in DayMonthTokens, y \in YearTokens,
        sep \in {"/", "-", "."} }
    \cup
    { y \o <<sep>> \o a \o <<sep>> \o b :
        a \in DayMonthTokens, b \in DayMonthTokens, y \in YearTokens,
        sep \in {"/", "-", "."} }

OtherDates ==
    { <<"J", "a", "n", "u", "a", "r", "y", " ", "1", "5", ",", " ", "2", "0", "3", "5">>,    \* 'January 15, 2035'
      <<"J", "a", "n", " ", "1", "5", ",", " ", "1", "9", "9", "0">>,    \* 'Jan 15, 1990'
      <<"J", "a", "n", " ", " ", "5", ",", " ", "1", "9", "9", "0">>,    \* 'Jan  5, 1990'
      <<"J", "a", "n", " ", "1", "5", ",", "1", "9", "9", "0">>,    \* 'Jan 15,1990'
      <<"F", "e", "b", "r", "u", "a", "r", "y", " ", "2", "9", " ", "2", "4", "0", "0">>,    \* 'February 29 2400'
      <<"F", "E", "B", " ", "2", "9", " ", "2", "0", "2", "8">>,    \* 'FEB 29 2028'
      <<"f", "e", "b", " ", "2", "9", " ", "2", "1", "0", "0">>,    \* 'feb 29 2100'
      <<"1", "5", " ", "j", "a", "n", "u", "a", "r", "y", " ", "2", "0", "2", "8">>,    \* '15 january 2028'
      <<"2", "9", " ", "F", "e", "b", " ", "2", "4", "0", "0">>,    \* '29 Feb 2400'
      <<"1", "5", " ", "J", "a", "n", " ", "2", "0", "2", "7">>,    \* '15 Jan 2027'
      <<"M", "a", "y", " ", "5", " ", "2", "1", "2", "8">>,    \* 'May 5 2128'
      <<"J", "a", "n", ".", " ", "1", "5", ",", " ", "1", "9", "9", "0">>,    \* 'Jan. 15, 1990'
      <<" ", "0", "1", "/", "1", "5", "/", "3", "5", " ">>,    \* ' 01/15/35 '
      <<"0", "1", "/", "1", "5", "/", "2", "1", "3", "0">>,    \* '01/15/2130'
      <<"0", "1", "-", "1", "5", ".", "2", "6">>,    \* '01-15.26'
      <<"0", "1", "/", " ", "5", "/", "1", "9", "9", "0">>,    \* '01/ 5/1990'
      <<"0", "1", "/", "1", "5", "/", "1", "9", "9", "0", "1">>,    \* '01/15/19901'
      <<"0", "0", "1", "/", "1", "5", "/", "1", "9", "9", "0">>,    \* '001/15/1990'
      <<"0", "1", "/", "1", "5", "/", "1", "9", "0">>,    \* '01/15/190'
      <<"1", "/", "1", "5">>,    \* '1/15'
      <<"a", "b", "c">>,    \* 'abc'
      <<" ">> }    \* ' '

RawDates == NumericDates \cup OtherDates

AmountPrefixes ==
    { <<>>,    \* ''
      <<"$">>,    \* '$'
      <<"-">>,    \* '-'
      <<"$", "-">>,    \* '$-'
      <<"-", "$">>,    \* '-$'
      <<"(">>,    \* '('
      <<"(", "$">>,    \* '($'
      <<" ", "$", " ">> }    \* ' $ '

AmountBodies ==
    { <<"1", "0", "0">>,    \* '100'
      <<"1", ",", "2", "3", "4", ".", "5", "6">>,    \* '1,234.56'
      <<"0">>,    \* '0'
      <<"5">>,    \* '5'
      <<"1", "2", ".", "5">>,    \* '12.5'
      <<"0", ".", "5">>,    \* '0.5'
      <<"1", "0", "0", ".", "0", "0">>,    \* '100.00'
      <<"1", "2", "3", "4", ".", "5", "6", "7">>,    \* '1234.567'
      <<".", "5">>,    \* '.5'
      <<"5", ".">>,    \* '5.'
      <<"1", ".", "2", ".", "3">>,    \* '1.2.3'
      <<"a", "b", "c">>,    \* 'abc'
      <<>> }    \* ''

AmountSuffixes ==
    { <<>>,    \* ''
      <<"%">>,    \* '%'
      <<")">>,    \* ')'
      <<" ", "%">>,    \* ' %'
      <<"-">> }    \* '-'

RawAmounts ==
    { x \in { p \o b \o q : p \in AmountPrefixes, b \in AmountBodies, q \in AmountSuffixes }
      : x # <<>> }

RawStrings ==
    { <<"1", "2", "3", "-", "4", "5", "-", "6", "7", "8", "9">>,    \* '123-45-6789'
      <<" ", "a", "b", "#", "c", " ", " ", "d", " ">>,    \* ' ab#c  d '
      <<"O", "'", "N", "e", "i", "l">>,    \* "O'Neil"
      <<"a", "_", "b">>,    \* 'a_b'
      <<"#", "#", "#">>,    \* '###'
      <<"J", "o", "h", "n", " ", " ", "S", "m", "i", "t", "h">>,    \* 'John  Smith'
      <<"x", "@", "y", ".", "z">>,    \* 'x@y.z'
      <<" ", " ">>,    \* '  '
      <<"$", "1", "0", "0">>,    \* '$100'
      <<"5", "0", "%">>,    \* '50%'
      <<"0", "1", "/", "1", "5", "/", "3", "5">>,    \* '01/15/35'
      <<"A", " ", "B">> }    \* 'A B'

DateElements ==
    { <<"D", "O", "B">>,    \* 'DOB'
      <<"d", "o", "b">>,    \* 'dob'
      <<"S", "P", "O", "U", "S", "E", "_", "D", "O", "B">> }    \* 'SPOUSE_DOB'

NumericElements ==
    { <<"S", "A", "L", "A", "R", "Y">>,    \* 'SALARY'
      <<"T", "A", "X", "_", "R", "A", "T", "E">>,    \* 'TAX_RATE'
      <<"H", "O", "U", "R", "S">>,    \* 'HOURS'
      <<"B", "A", "S", "E", "_", "P", "A", "Y">>,    \* 'BASE_PAY'
      <<"P", "C", "T", "_", "V", "E", "S", "T", "E", "D">> }    \* 'PCT_VESTED'

TextElements ==
    { <<"S", "S", "N">>,    \* 'SSN'
      <<"N", "A", "M", "E">>,    \* 'NAME'
      <<"E", "M", "A", "I", "L">>,    \* 'EMAIL'
      <<"M", "I", "S", "C">>,    \* 'MISC'
      <<"S", "p", "o", "u", "s", "e", "_", "N", "a", "m", "e">>,    \* 'Spouse_Name'
      <<"Z", "I", "P", "_", "C", "O", "D", "E">> }    \* 'ZIP_CODE'

(* element names for the registry: explicit entries that a keyword group  *)
(* would type otherwise, names in two keyword groups, a name in none       *)
RegistryElements ==
    { <<"H", "O", "U", "R", "L", "Y", "_", "R", "A", "T", "E">>,    \* 'HOURLY_RATE'
      <<"P", "o", "l", "i", "c", "y", "_", "N", "u", "m", "b", "e", "r">>,    \* 'Policy_Number'
      <<"P", "A", "Y", "_", "D", "A", "T", "E">>,    \* 'PAY_DATE'
      <<"A", "C", "C", "O", "U", "N", "T", "_", "N", "U", "M", "B", "E", "R">>,    \* 'ACCOUNT_NUMBER'
      <<"n", "o", "t", "e", "s">>,    \* 'notes'
      <<"B", "E", "N", "E", "F", "I", "T", "_", "R", "A", "T", "E">>,    \* 'BENEFIT_RATE'
      <<"F", "A", "X">>,    \* 'FAX'
      <<"C", "O", "L", "O", "U", "R">>,    \* 'COLOUR'
      <<"R", "A", "T", "E", "%">>,    \* 'RATE%'
      <<"D", "i", "s", "c", "o", "u", "n", "t">> }    \* 'Discount'

CleanInputs ==
    { [element |-> e, value |-> v, cleaned_value |-> None] :
        e \in {<<"D", "O", "B">>}, v \in RawDates }
    \cup
    { [element |-> e, value |-> v, cleaned_value |-> None] :
        e \in DateElements, v \in OtherDates }
    \cup
    { [element |-> e, value |-> v, cleaned_value |-> None] :
        e \in NumericElements, v \in RawAmounts }
    \cup
    { [element |-> e, value |-> v, cleaned_value |-> None] :
        e \in TextElements \cup NumericElements \cup DateElements \cup RegistryElements,
        v \in RawStrings }

(***************************************************************************)
(* Configurations of one document type                                     *)
(***************************************************************************)
ActiveLists ==
    { <<"DOB", "SSN">>,
      <<"DOB", "SDOB", "EIN">>,
      <<"ZIP", "FAX", "URL", "DOB">> }

NoMapping == [e \in {} |-> ""]

Mappings ==
    { NoMapping,
      [e \in {"DOB", "NAME"} |-> IF e = "DOB" THEN "SDOB" ELSE "SNAME"] }

NameConfigs ==
    { [name_extraction |-> FALSE, name_start_anchors |-> <<>>,
       name_stop_anchors |-> <<>>, name_prefixes |-> <<>>],
      [name_extraction |-> TRUE,
       name_start_anchors |-> << <<"N">>, <<"S">> >>,
       name_stop_anchors |-> << <<"D">>, <<"E">> >>,
       name_prefixes |-> <<"Name">>],
      [name_extraction |-> TRUE,
       name_start_anchors |-> << <<"S">>, <<"N">> >>,
       name_stop_anchors |-> << <<"E">> >>,
       name_prefixes |-> <<"Spouse", "Name">>] }

(***************************************************************************)
(* Frames handed to clean_extractions_dataframe                            *)
(***************************************************************************)
(* raw values of name rows: None is a null value *)
RawNames ==
    { None,    \* null
      Some(<<>>),    \* ''
      Some(<<"J", "o", "h", "n", " ", "S", "m", "i", "t", "h">>),    \* 'John Smith'
      Some(<<"S", "m", "i", "t", "h", ",", " ", "J", "o", "h", "n">>),    \* 'Smith, John'
      Some(<<" ", "j", "o", "h", "n", " ", " ", "m", "i", "c", "h", "a", "e", "l", " ", "s", "m", "i", "t", "h", " ">>),    \* ' john  michael smith '
      Some(<<"M", "a", "d", "o", "n", "n", "a">>),    \* 'Madonna'
      Some(<<"S", "m", "i", "t", "h", ",">>),    \* 'Smith,'
      Some(<<",", " ", "J", "o", "h", "n">>),    \* ', John'
      Some(<<",">>),    \* ','
      Some(<<"S", "m", "i", "t", "h", ",", " ", "J", "o", "h", "n", ",", " ", "J", "r">>),    \* 'Smith, John, Jr'
      Some(<<" ", " ">>),    \* '  '
      Some(<<"O", "'", "N", "e", "i", "l", ",", "M", "a", "r", "y", " ", "A", "n", "n">>),    \* "O'Neil,Mary Ann"
      Some(<<"M", "a", "r", "y", " ", "A", "n", "n", " ", "O", "'", "N", "e", "i", "l">>) }    \* "Mary Ann O'Neil"

(* start anchors: None is a row without one *)
StartAnchors ==
    { None,    \* null
      Some(<<>>),    \* ''
      Some(<<"N", "a", "m", "e", ":">>),    \* 'Name:'
      Some(<<"S", "p", "o", "u", "s", "e", " ", "N", "a", "m", "e", ":">>),    \* 'Spouse Name:'
      Some(<<"B", "e", "n", "e", "f", "i", "c", "i", "a", "r", "y", ":">>),    \* 'Beneficiary:'
      Some(<<"B", "e", "n", "e", "f", ".", " ", "N", "a", "m", "e">>),    \* 'Benef. Name'
      Some(<<"s", "p", "o", "u", "s", "e", " ", "o", "f", " ", "b", "e", "n", "e", "f", "i", "c", "i", "a", "r", "y">>),    \* 'spouse of beneficiary'
      Some(<<"P", "a", "r", "t", "i", "c", "i", "p", "a", "n", "t">>) }    \* 'Participant'

NameElements ==
    { <<"N", "A", "M", "E">>,    \* 'NAME'
      <<"S", "p", "o", "u", "s", "e", "_", "N", "a", "m", "e">>,    \* 'Spouse_Name'
      <<"E", "M", "P", "L", "O", "Y", "E", "E", "_", "N", "A", "M", "E">>,    \* 'EMPLOYEE_NAME'
      <<"B", "I", "R", "T", "H", "_", "N", "A", "M", "E">> }    \* 'BIRTH_NAME'

OtherElements ==
    { <<"S", "S", "N">>,    \* 'SSN'
      <<"S", "A", "L", "A", "R", "Y">>,    \* 'SALARY'
      <<"D", "O", "B">>,    \* 'DOB'
      <<"E", "M", "A", "I", "L">> }    \* 'EMAIL'

OtherValues ==
    { None,    \* null
      Some(<<>>),    \* ''
      Some(<<"$", "1", "0", "0">>),    \* '$100'
      Some(<<"0", "1", "/", "1", "5", "/", "3", "5">>),    \* '01/15/35'
      Some(<<"x", "@", "y", ".", "z">>) }    \* 'x@y.z'

FrameRow(element, value, start_anchor) ==
    [element |-> element, value |-> value, start_anchor |-> start_anchor,
     cleaned_value |-> None]

NameRows == {FrameRow(e, v, a) : e \in NameElements, v \in RawNames, a \in StartAnchors}

OtherRows ==
    {FrameRow(e, v, a) : e \in OtherElements, v \in OtherValues, a \in {None, Some(<<>>)}}

(* rows put together in frames of two *)
MixedRows ==
    { FrameRow(<<"N", "A", "M", "E">>, Some(<<"J", "o", "h", "n", " ", "S", "m", "i", "t", "h">>), Some(<<"S", "p", "o", "u", "s", "e", " ", "N", "a", "m", "e", ":">>)),
      FrameRow(<<"N", "A", "M", "E">>, Some(<<"S", "m", "i", "t", "h", ",", " ", "J", "o", "h", "n">>), Some(<<"N", "a", "m", "e", ":">>)),
      FrameRow(<<"N", "A", "M", "E">>, None, None),
      FrameRow(<<"S", "A", "L", "A", "R", "Y">>, Some(<<"$", "1", "0", "0">>), None) }

Frames ==
    {<<>>}
    \cup {<<r>> : r \in NameRows \cup OtherRows}
    \cup {<<r, q>> : r \in MixedRows, q \in MixedRows}

(***************************************************************************)
(* validator.py: ExtractionValidator.__init__ and load_config.  A value of *)
(* a TOML file is a boolean, an integer, a float (the fraction n/d) or a   *)
(* string.                                                                 *)
(***************************************************************************)
BoolValue(b) == [type |-> "bool", n |-> IF b THEN 1 ELSE 0, d |-> 1, s |-> ""]
IntValue(n) == [type |-> "int", n |-> n, d |-> 1, s |-> ""]
FloatValue(n, d) == [type |-> "float", n |-> n, d |-> d, s |-> ""]
StrValue(s) == [type |-> "str", n |-> 0, d |-> 1, s |-> s]

(* bool(v), as "if not self.enable_..." takes a value *)
IsTrue(v) == IF v.type = "str" THEN v.s # "" ELSE v.n # 0

(* a value Python orders against a float and accepts as a number of days:  *)
(* bool is a subclass of int, a str raises TypeError                       *)
IsNumber(v) == v.type # "str"

SettingNames ==
    {"enable_date_logic", "enable_positional_outliers",
     "enable_within_document_gaps", "enable_value_reasonableness",
     "positional_outlier_threshold", "within_document_gap_threshold",
     "date_future_tolerance_days"}

(* "Default validation settings" of __init__ *)
DefaultSettings ==
    [name \in SettingNames |->
        CASE name = "positional_outlier_threshold"  -> FloatValue(3, 1)
          [] name = "within_document_gap_threshold" -> IntValue(2000)
          [] name = "date_future_tolerance_days"    -> IntValue(0)
          [] OTHER                                  -> BoolValue(TRUE)]

(* load_config on a file: "missing" returns at the exists() test,          *)
(* "unreadable" raises in toml.load, "not_a_table" (Validation is not a    *)
(* table) raises at the first .get; the except clause logs and returns.    *)
(* For a table, each setting is validation_config.get(name, default).      *)
LoadConfig(file, current) ==
    IF file.kind = "table"
    THEN [name \in SettingNames |->
             IF name \in DOMAIN file.validation
             THEN file.validation[name] ELSE DefaultSettings[name]]
    ELSE current

(* the settings as validate_extractions reads them; a threshold that is    *)
(* not a number is given its default here and is never read (a comparison  *)
(* with it raises first)                                                   *)
AsValidationConfig(s) ==
    [enable_date_logic |-> IsTrue(s["enable_date_logic"]),
     enable_positional_outliers |-> IsTrue(s["enable_positional_outliers"]),
     enable_within_document_gaps |-> IsTrue(s["enable_within_document_gaps"]),
     enable_value_reasonableness |-> IsTrue(s["enable_value_reasonableness"]),
     positional_outlier_threshold |->
         IF IsNumber(s["positional_outlier_threshold"])
         THEN [num |-> s["positional_outlier_threshold"].n,
               den |-> s["positional_outlier_threshold"].d]
         ELSE [num |-> 3, den |-> 1],
     within_document_gap_threshold |->
         IF IsNumber(s["within_document_gap_threshold"])
         THEN s["within_document_gap_threshold"].n ELSE 2000,
     date_future_tolerance_days |->
         IF IsNumber(s["date_future_tolerance_days"])
         THEN s["date_future_tolerance_days"].n ELSE 0]

(* "if std > 0": the positions of the group are not all the same *)
StdPositive(positions) == \E i, j \in 1..Len(positions) : positions[i] # positions[j]

(* "z_score > self.positional_outlier_threshold" is evaluated for a row *)
ZScoreCompared(df, s) ==
    /\ IsTrue(s["enable_positional_outliers"])
    /\ \E i \in 1..Len(df) :
          /\ df[i].extraction_position # None
          /\ LET stats == CalculatePositionalStatistics(df, df[i].source, df[i].element)
             IN  stats # None /\ StdPositive(Get(stats))

(* "gap > self.within_document_gap_threshold" is evaluated: a document has *)
(* two rows with a position                                                *)
GapCompared(df, s) ==
    /\ IsTrue(s["enable_within_document_gaps"])
    /\ \E i, j \in 1..Len(df) :
          /\ i # j
          /\ df[i].source = df[j].source /\ df[i].filename = df[j].filename
          /\ df[i].extraction_position # None
          /\ df[j].extraction_position # None

(* "timedelta(days=self.date_future_tolerance_days)" is evaluated: a date  *)
(* element has a cleaned value parse_date reads                            *)
ToleranceAdded(df, s) ==
    /\ IsTrue(s["enable_value_reasonableness"])
    /\ \E i \in 1..Len(df) :
          /\ df[i].cleaned_value # None
          /\ AnyKeyword(UpperCase(df[i].element), DateKeywords)
          /\ ValidatorParseDate(df[i].cleaned_value) # None

(* validate_extractions raises TypeError: nothing in it catches one *)
RaisesTypeError(df, s) ==
    \/ ~IsNumber(s["positional_outlier_threshold"]) /\ ZScoreCompared(df, s)
    \/ ~IsNumber(s["within_document_gap_threshold"]) /\ GapCompared(df, s)
    \/ ~IsNumber(s["date_future_tolerance_days"]) /\ ToleranceAdded(df, s)

(***************************************************************************)
(* Configuration files and batches for the validator's settings            *)
(***************************************************************************)
NoTable == [name \in {} |-> StrValue("")]

OneSetting(name, v) == [n \in {name} |-> v]

Switches ==
    {"enable_date_logic", "enable_positional_outliers",
     "enable_within_document_gaps", "enable_value_reasonableness"}

ValidationTables ==
    {NoTable}
    \cup {OneSetting(name, v) :
            name \in Switches,
            v \in {BoolValue(FALSE), StrValue("no"), StrValue(""), IntValue(0)}}
    \cup {OneSetting("positional_outlier_threshold", v) :
            v \in {FloatValue(3, 2), IntValue(1), StrValue("high"), BoolValue(TRUE)}}
    \cup {OneSetting("within_document_gap_threshold", v) :
            v \in {IntValue(25), StrValue("2000")}}
    \cup {OneSetting("date_future_tolerance_days", v) :
            v \in {IntValue(30), StrValue("30")}}

ConfigFiles ==
    {[kind |-> k, validation |-> NoTable] :
        k \in {"none", "missing", "unreadable", "not_a_table"}}
    \cup {[kind |-> "table", validation |-> t] : t \in ValidationTables}

SettingsBatches ==
    { <<>>,
      InFile(<< Same(FNAME, <<"J", "O", "H", "N">>, 1, 10) >>, "forms", "a.txt"),
      InFile(<< Same(DOB, <<"0", "1", "/", "1", "5", "/", "1", "8", "9", "0">>, 1, 10),
                Same(DOH, <<"0", "2", "/", "2", "0", "/", "1", "8", "8", "5">>, 1, 3000) >>,
             "forms", "a.txt"),
      SeriesRows(<<10, 10, 10, 10, 10>>),
      SeriesRows(<<10, 12, 11, 10, 100>>) }

(***************************************************************************)
(* extractor.py: extract_from_document as one function, extract_from_folder *)
(* orchestrator.py: process_single_source                                  *)
(***************************************************************************)
(* the list extract_from_document returns for a text *)
ExtractFromDocument(t, active, mappings, names) ==
    IF t = <<>> THEN <<>>
    ELSE LET pattern_results == ExtractElements(t, active).results
             name_results == ExtractName(t, names.name_start_anchors,
                                         names.name_stop_anchors, names.name_prefixes)
             with_names ==
                 IF names.name_extraction
                 THEN pattern_results \o (IF name_results # <<>> THEN name_results
                                          ELSE <<BlankEntry("NAME")>>)
                 ELSE pattern_results
         IN  DeduplicateExtractions(ApplyDuplicateMappings(with_names, mappings))

(* load_text_file: the content, or "" for a file that cannot be read *)
LoadTextFile(file) == IF file.readable THEN file.content ELSE <<>>

(* the records of one file, with the filename and source put on them *)
FileExtractions(file, config) ==
    LET found == ExtractFromDocument(LoadTextFile(file), config.active_patterns,
                                     config.duplicate_mappings, config.names)
    IN  [k \in 1..Len(found) |->
            [source |-> config.document_source, filename |-> file.filename,
             record |-> found[k]]]

(* extract_from_folder: the loop over the files *)
ExtractFromFolder(files, config) ==
    Flatten([k \in 1..Len(files) |-> FileExtractions(files[k], config)])

(***************************************************************************)
(* Plan folders handed to process_all_sources.  A source folder has a name, *)
(* the state of its <name>.toml ("ok", "missing": no such file,            *)
(* "unreadable": toml.load rejects it) and its .txt files.                 *)
(***************************************************************************)
TextOne == <<"d", "1", "D", "2", "N", "A", "b", "D">>
TextTwo == <<"b", "1", "d", "1">>

File(filename, readable, content) ==
    [filename |-> filename, readable |-> readable, content |-> content]

FileLists ==
    { <<>>,
      << File("1.txt", TRUE, TextOne) >>,
      << File("1.txt", FALSE, TextOne), File("2.txt", TRUE, TextTwo) >>,
      << File("1.txt", TRUE, TextTwo), File("2.txt", FALSE, <<>>),
         File("3.txt", TRUE, TextOne) >> }

(* what the configuration of a source says, when it can be read *)
SourceConfig(name) ==
    [document_source |-> name,
     active_patterns |-> <<"ZIP", "FAX", "URL", "DOB">>,
     duplicate_mappings |-> [e \in {"DOB"} |-> "SDOB"],
     names |-> [name_extraction |-> TRUE,
                name_start_anchors |-> << <<"N">> >>,
                name_stop_anchors |-> << <<"D">> >>,
                name_prefixes |-> <<"Name">>]]

SourceFolder(name, toml, files) == [name |-> name, toml |-> toml, files |-> files]

TomlStates == {"ok", "missing", "unreadable"}

SourceNames == <<"W2", "Birth", "Award">>

FolderLists ==
    {<<>>}
    \cup {<<SourceFolder(SourceNames[1], c, f)>> : c \in TomlStates, f \in FileLists}
    \cup {<<SourceFolder(SourceNames[1], c1, f1), SourceFolder(SourceNames[2], c2, f2)>> :
            c1 \in TomlStates, c2 \in TomlStates,
            f1 \in FileLists \ {<<>>}, f2 \in FileLists \ {<<>>}}
    \cup {<<SourceFolder(SourceNames[1], "ok", f), SourceFolder(SourceNames[2], c, f),
            SourceFolder(SourceNames[3], "ok", f)>> :
            c \in TomlStates, f \in {<< File("1.txt", TRUE, TextTwo) >>}}

PlanFolders ==
    {[exists |-> FALSE, source_folders |-> <<>>]}
    \cup {[exists |-> TRUE, source_folders |-> l] : l \in FolderLists}

(***************************************************************************)
(* cleaner_config.py: the functions that change and copy the registry      *)
(***************************************************************************)
(* "CLEANER_ASSIGNMENTS[element.upper()] = cleaner_type" *)
AddCleanerAssignmentTo(dict, element, cleaner_type) ==
    {a \in dict : a[1] # UpperCase(element)}
        \cup {<<UpperCase(element), cleaner_type>>}

(* "if element_upper in CLEANER_ASSIGNMENTS: del CLEANER_ASSIGNMENTS[...]" *)
RemoveCleanerAssignmentFrom(dict, element) ==
    LET element_upper == UpperCase(element)
    IN  IF \E a \in dict : a[1] = element_upper
        THEN {a \in dict : a[1] # element_upper}
        ELSE dict

(* the registry itself handed out *)
SameDict(dict) == [shared |-> TRUE, items |-> dict]

(* "CLEANER_ASSIGNMENTS.copy()": a new dictionary with the same items *)
DictCopy(dict) == [shared |-> FALSE, items |-> dict]

(* the element names the calls are made with *)
CalledElements ==
    { <<"U", "R", "L">>,    \* an explicit entry no keyword group would type
      <<"u", "r", "l">>,    \* the same name in lower case
      <<"H", "i", "r", "e">>,    \* no entry, typed by a keyword
      <<"C", "O", "L", "O", "U", "R">> }    \* no entry and no keyword

AddedTypes == {"date", "dollar"}

MaxCalls == 3

RegistryIdle ==
    /\ registry = CLEANER_ASSIGNMENTS
    /\ registry_calls = <<>>
    /\ registry_before = CLEANER_ASSIGNMENTS
    /\ all_assignments = None

BatchIdle ==
    /\ plan_folder = [exists |-> FALSE, source_folders |-> <<>>]
    /\ source_idx = 0
    /\ orchestrated = <<>>
    /\ run_state = "off"

SettingsIdle ==
    /\ config_file = [kind |-> "none", validation |-> NoTable]
    /\ settings = DefaultSettings
    /\ settings_pc = "off"
    /\ outcome = "none"

FrameIdle ==
    /\ raw_df = <<>>
    /\ reverse_names = FALSE
    /\ frame_pc = "off"
    /\ cleaned_df = <<>>
    /\ parse_calls = <<>>

(* the variables of a part of the program that a specification leaves out *)
NoNames == [name_extraction |-> FALSE, name_start_anchors |-> <<>>,
            name_stop_anchors |-> <<>>, name_prefixes |-> <<>>]

ExtractIdle ==
    /\ text = <<>>
    /\ active_patterns = <<>>
    /\ duplicate_mappings = NoMapping
    /\ name_config = NoNames
    /\ pc = "off"
    /\ all_extractions = <<>>
    /\ calls = <<>>
    /\ extracted = <<>>

CleanIdle ==
    /\ new_row = [element |-> <<>>, value |-> <<>>, cleaned_value |-> None]
    /\ recleaned = None
    /\ clean_pc = "off"

ValidateIdle ==
    /\ batch = <<>>
    /\ validation_config = DefaultConfig
    /\ clock = [year |-> 2026, month |-> 11, day |-> 3]
    /\ validate_pc = "off"
    /\ result_df = <<>>

(***************************************************************************)
(* extract_from_document, step by step                                     *)
(***************************************************************************)
Init ==
    /\ text \in Documents
    /\ active_patterns \in ActiveLists
    /\ duplicate_mappings \in Mappings
    /\ name_config \in NameConfigs
    /\ pc = "start"
    /\ all_extractions = <<>>
    /\ calls = <<>>
    /\ extracted = <<>>
    /\ CleanIdle
    /\ ValidateIdle
    /\ FrameIdle
    /\ SettingsIdle
    /\ BatchIdle
    /\ RegistryIdle

config_vars == <<text, active_patterns, duplicate_mappings, name_config>>

(* "if not text: return []" *)
EmptyDocument ==
    /\ pc = "start"
    /\ text = <<>>
    /\ pc' = "done"
    /\ UNCHANGED <<config_vars, all_extractions, calls, extracted, clean_vars, validate_vars, frame_vars, settings_vars, batch_vars, registry_vars>>

(* the loop over active_patterns *)
ExtractPatterns ==
    /\ pc = "start"
    /\ text # <<>>
    /\ LET r == ExtractElements(text, active_patterns)
       IN  /\ all_extractions' = r.results
           /\ calls' = r.calls
    /\ pc' = "names"
    /\ UNCHANGED <<config_vars, extracted, clean_vars, validate_vars, frame_vars, settings_vars, batch_vars, registry_vars>>

(* "if self.config['Document']['name_extraction']:" *)
ExtractNames ==
    /\ pc = "names"
    /\ IF name_config.name_extraction
       THEN LET name_results == ExtractName(text, name_config.name_start_anchors,
                                            name_config.name_stop_anchors,
                                            name_config.name_prefixes)
            IN  all_extractions' = all_extractions \o
                    (IF name_results # <<>> THEN name_results
                     ELSE <<BlankEntry("NAME")>>)
       ELSE all_extractions' = all_extractions
    /\ extracted' = all_extractions'
    /\ pc' = "map"
    /\ UNCHANGED <<config_vars, calls, clean_vars, validate_vars, frame_vars, settings_vars, batch_vars, registry_vars>>

ApplyMappings ==
    /\ pc = "map"
    /\ all_extractions' = ApplyDuplicateMappings(all_extractions, duplicate_mappings)
    /\ pc' = "dedup"
    /\ UNCHANGED <<config_vars, calls, extracted, clean_vars, validate_vars, frame_vars, settings_vars, batch_vars, registry_vars>>

Deduplicate ==
    /\ pc = "dedup"
    /\ all_extractions' = DeduplicateExtractions(all_extractions)
    /\ pc' = "done"
    /\ UNCHANGED <<config_vars, calls, extracted, clean_vars, validate_vars, frame_vars, settings_vars, batch_vars, registry_vars>>

(***************************************************************************)
(* The steps of main.py after the extraction: the records become a frame,  *)
(* the frame is cleaned and the cleaned frame is validated.                *)
(***************************************************************************)
(* the name of an element as the text the cleaner and the validator read *)
ElementChars(element) ==
    CASE element = "DOB"   -> <<"D", "O", "B">>
      [] element = "SDOB"  -> <<"S", "D", "O", "B">>
      [] element = "SSN"   -> <<"S", "S", "N">>
      [] element = "ZIP"   -> <<"Z", "I", "P">>
      [] element = "FAX"   -> <<"F", "A", "X">>
      [] element = "URL"   -> <<"U", "R", "L">>
      [] element = "EIN"   -> <<"E", "I", "N">>
      [] element = "NAME"  -> <<"N", "A", "M", "E">>
      [] element = "SNAME" -> <<"S", "N", "A", "M", "E">>

(* get_extractions_dataframe: one row per record; source and filename are  *)
(* the ones extract_all put on every record of the document                *)
ExtractionsFrame(extractions) ==
    [i \in 1..Len(extractions) |->
        [source |-> "forms", filename |-> "a.txt",
         element |-> ElementChars(extractions[i].element),
         value |-> extractions[i].value,
         extraction_order |-> extractions[i].extraction_order,
         extraction_position |-> extractions[i].extraction_position,
         start_anchor |-> extractions[i].start_anchor,
         original_element |-> extractions[i].original_element,
         cleaned_value |-> None]]

(* the settings the validation of a run is made with *)
RunConfigs ==
    { DefaultConfig,
      [DefaultConfig EXCEPT !.enable_date_logic = FALSE,
                            !.enable_positional_outliers = FALSE,
                            !.enable_within_document_gaps = FALSE,
                            !.enable_value_reasonableness = FALSE] }

(* "if not all_extractions: ... return" *)
NothingExtracted ==
    /\ pc = "done"
    /\ all_extractions = <<>>
    /\ pc' = "stopped"
    /\ UNCHANGED <<config_vars, all_extractions, calls, extracted, clean_vars, validate_vars, frame_vars, settings_vars, batch_vars, registry_vars>>

(* steps 5 and 6: clean_extractions_dataframe, then validate_extractions.  *)
(* reverse_name_order keeps the default of main.py.                        *)
CleanAndValidate ==
    /\ pc = "done"
    /\ all_extractions # <<>>
    /\ raw_df' = ExtractionsFrame(all_extractions)
    /\ cleaned_df' = CleanExtractionsDataframe(raw_df', reverse_names)
    /\ parse_calls' = ParseNameCalls(raw_df', reverse_names)
    /\ batch' = cleaned_df'
    /\ validation_config' \in RunConfigs
    /\ result_df' = ValidateExtractions(batch', validation_config', clock)
    /\ frame_pc' = "done"
    /\ validate_pc' = "done"
    /\ pc' = "validated"
    /\ UNCHANGED <<config_vars, all_extractions, calls, extracted, clean_vars,
                   reverse_names, clock, settings_vars, batch_vars, registry_vars>>

Next ==
    \/ EmptyDocument
    \/ ExtractPatterns
    \/ ExtractNames
    \/ ApplyMappings
    \/ Deduplicate
    \/ NothingExtracted
    \/ CleanAndValidate

Spec == Init /\ [][Next]_vars

(***************************************************************************)
(* clean_value on one row, and again on the value it returned              *)
(***************************************************************************)
InitClean ==
    /\ new_row \in CleanInputs
    /\ recleaned = None
    /\ clean_pc = "raw"
    /\ ExtractIdle
    /\ ValidateIdle
    /\ FrameIdle
    /\ SettingsIdle
    /\ BatchIdle
    /\ RegistryIdle

(* new_row['cleaned_value'] = self.clean_value(raw_value, element, ...) *)
CleanRow ==
    /\ clean_pc = "raw"
    /\ new_row' = [new_row EXCEPT !.cleaned_value = CleanValue(new_row.value, new_row.element)]
    /\ clean_pc' = "cleaned"
    /\ UNCHANGED <<recleaned, extract_vars, validate_vars, frame_vars, settings_vars, batch_vars, registry_vars>>

(* clean_value called with a value it returned *)
CleanAgain ==
    /\ clean_pc = "cleaned"
    /\ new_row.cleaned_value # None
    /\ recleaned' = CleanValue(Get(new_row.cleaned_value), new_row.element)
    /\ clean_pc' = "recleaned"
    /\ UNCHANGED <<new_row, extract_vars, validate_vars, frame_vars, settings_vars, batch_vars, registry_vars>>

NextClean ==
    \/ CleanRow
    \/ CleanAgain

SpecClean == InitClean /\ [][NextClean]_vars

(***************************************************************************)
(* validate_extractions on one batch                                       *)
(***************************************************************************)
InitValidate ==
    /\ batch \in Batches
    /\ validation_config \in ValidationConfigs
    /\ clock \in Clocks
    /\ validate_pc = "start"
    /\ result_df = <<>>
    /\ ExtractIdle
    /\ CleanIdle
    /\ FrameIdle
    /\ SettingsIdle
    /\ BatchIdle
    /\ RegistryIdle

(* "if df.empty: return df" *)
ValidateEmpty ==
    /\ validate_pc = "start"
    /\ batch = <<>>
    /\ result_df' = batch
    /\ validate_pc' = "done"
    /\ UNCHANGED <<batch, validation_config, clock, extract_vars, clean_vars, frame_vars, settings_vars, batch_vars, registry_vars>>

Validate ==
    /\ validate_pc = "start"
    /\ batch # <<>>
    /\ result_df' = ValidateExtractions(batch, validation_config, clock)
    /\ validate_pc' = "done"
    /\ UNCHANGED <<batch, validation_config, clock, extract_vars, clean_vars, frame_vars, settings_vars, batch_vars, registry_vars>>

NextValidate ==
    \/ ValidateEmpty
    \/ Validate

SpecValidate == InitValidate /\ [][NextValidate]_vars

(***************************************************************************)
(* clean_extractions_dataframe on one frame                                *)
(***************************************************************************)
InitFrame ==
    /\ raw_df \in Frames
    /\ reverse_names \in BOOLEAN
    /\ frame_pc = "start"
    /\ cleaned_df = <<>>
    /\ parse_calls = <<>>
    /\ ExtractIdle
    /\ CleanIdle
    /\ ValidateIdle
    /\ SettingsIdle
    /\ BatchIdle
    /\ RegistryIdle

(* "if df.empty: return df" *)
CleanEmptyFrame ==
    /\ frame_pc = "start"
    /\ raw_df = <<>>
    /\ cleaned_df' = raw_df
    /\ frame_pc' = "done"
    /\ UNCHANGED <<raw_df, reverse_names, parse_calls, extract_vars, clean_vars, validate_vars, settings_vars, batch_vars, registry_vars>>

(* the loop over df.iterrows() and the frame built from all_rows *)
CleanFrame ==
    /\ frame_pc = "start"
    /\ raw_df # <<>>
    /\ cleaned_df' = CleanExtractionsDataframe(raw_df, reverse_names)
    /\ parse_calls' = ParseNameCalls(raw_df, reverse_names)
    /\ frame_pc' = "done"
    /\ UNCHANGED <<raw_df, reverse_names, extract_vars, clean_vars, validate_vars, settings_vars, batch_vars, registry_vars>>

NextFrame ==
    \/ CleanEmptyFrame
    \/ CleanFrame

SpecFrame == InitFrame /\ [][NextFrame]_vars

(***************************************************************************)
(* An ExtractionValidator built from a configuration file, then            *)
(* validate_extractions on one batch                                       *)
(***************************************************************************)
InitSettings ==
    /\ config_file \in ConfigFiles
    /\ settings = DefaultSettings
    /\ settings_pc = "init"
    /\ outcome = "none"
    /\ batch \in SettingsBatches
    /\ validation_config = DefaultConfig
    /\ clock = [year |-> 2026, month |-> 11, day |-> 3]
    /\ validate_pc = "off"
    /\ result_df = <<>>
    /\ ExtractIdle
    /\ CleanIdle
    /\ FrameIdle
    /\ BatchIdle
    /\ RegistryIdle

(* "if config_path:" with no path *)
ConstructWithoutPath ==
    /\ settings_pc = "init"
    /\ config_file.kind = "none"
    /\ settings_pc' = "ready"
    /\ UNCHANGED <<config_file, settings, outcome, extract_vars, clean_vars,
                   validate_vars, frame_vars, batch_vars, registry_vars>>

(* "self.load_config(config_path)" *)
ConstructWithPath ==
    /\ settings_pc = "init"
    /\ config_file.kind # "none"
    /\ settings' = LoadConfig(config_file, settings)
    /\ settings_pc' = "ready"
    /\ UNCHANGED <<config_file, outcome, extract_vars, clean_vars,
                   validate_vars, frame_vars, batch_vars, registry_vars>>

(* validate_extractions with the settings of the validator *)
ValidateWithSettings ==
    /\ settings_pc = "ready"
    /\ validation_config' = AsValidationConfig(settings)
    /\ IF batch = <<>>
       THEN result_df' = batch /\ outcome' = "returned"
       ELSE IF RaisesTypeError(batch, settings)
            THEN result_df' = <<>> /\ outcome' = "TypeError"
            ELSE /\ result_df' = ValidateExtractions(batch, validation_config', clock)
                 /\ outcome' = "returned"
    /\ settings_pc' = "done"
    /\ UNCHANGED <<config_file, settings, batch, clock, validate_pc,
                   extract_vars, clean_vars, frame_vars, batch_vars, registry_vars>>

NextSettings ==
    \/ ConstructWithoutPath
    \/ ConstructWithPath
    \/ ValidateWithSettings

SpecSettings == InitSettings /\ [][NextSettings]_vars

(***************************************************************************)
(* process_all_sources, one source folder at a time                        *)
(***************************************************************************)
InitBatch ==
    /\ plan_folder \in PlanFolders
    /\ source_idx = 1
    /\ orchestrated = <<>>
    /\ run_state = "start"
    /\ ExtractIdle
    /\ CleanIdle
    /\ ValidateIdle
    /\ FrameIdle
    /\ SettingsIdle
    /\ RegistryIdle

batch_rest == <<extract_vars, clean_vars, validate_vars, frame_vars, settings_vars>>

(* "if not self.plan_folder.exists(): ... return []" *)
PlanFolderNotFound ==
    /\ run_state = "start"
    /\ ~plan_folder.exists
    /\ run_state' = "returned"
    /\ UNCHANGED <<plan_folder, source_idx, orchestrated, batch_rest, registry_vars>>

(* "if not source_folders: ... return []" *)
NoSourceFolders ==
    /\ run_state = "start"
    /\ plan_folder.exists
    /\ plan_folder.source_folders = <<>>
    /\ run_state' = "returned"
    /\ UNCHANGED <<plan_folder, source_idx, orchestrated, batch_rest, registry_vars>>

(* "self.all_extractions = []" and into the loop *)
StartLoop ==
    /\ run_state = "start"
    /\ plan_folder.exists
    /\ plan_folder.source_folders # <<>>
    /\ orchestrated' = <<>>
    /\ run_state' = "loop"
    /\ UNCHANGED <<plan_folder, source_idx, batch_rest, registry_vars>>

(* one turn of the loop: process_single_source on the folder at hand.  No  *)
(* config file: the folder is skipped.  A config file toml.load rejects:   *)
(* TextExtractor.__init__ raises out of load_config, and neither           *)
(* process_single_source nor process_all_sources catches it.               *)
ProcessSingleSource ==
    /\ run_state = "loop"
    /\ source_idx <= Len(plan_folder.source_folders)
    /\ LET source_folder == plan_folder.source_folders[source_idx]
       IN  CASE source_folder.toml = "missing" ->
                  /\ orchestrated' = orchestrated
                  /\ source_idx' = source_idx + 1
                  /\ run_state' = "loop"
             [] source_folder.toml = "unreadable" ->
                  /\ run_state' = "raised"
                  /\ UNCHANGED <<orchestrated, source_idx, registry_vars>>
             [] source_folder.toml = "ok" ->
                  /\ orchestrated' = orchestrated \o
                        ExtractFromFolder(source_folder.files,
                                          SourceConfig(source_folder.name))
                  /\ source_idx' = source_idx + 1
                  /\ run_state' = "loop"
    /\ UNCHANGED <<plan_folder, batch_rest, registry_vars>>

(* "return self.all_extractions" *)
ReturnAllExtractions ==
    /\ run_state = "loop"
    /\ source_idx > Len(plan_folder.source_folders)
    /\ run_state' = "returned"
    /\ UNCHANGED <<plan_folder, source_idx, orchestrated, batch_rest, registry_vars>>

NextBatch ==
    \/ PlanFolderNotFound
    \/ NoSourceFolders
    \/ StartLoop
    \/ ProcessSingleSource
    \/ ReturnAllExtractions

SpecBatch == InitBatch /\ [][NextBatch]_vars

(***************************************************************************)
(* The cleaner registry: calls of add_cleaner_assignment,                  *)
(* remove_cleaner_assignment and get_all_assignments in any order, and a   *)
(* caller that writes into the dictionary get_all_assignments gave it.     *)
(***************************************************************************)
InitRegistry ==
    /\ registry = CLEANER_ASSIGNMENTS
    /\ registry_calls = <<>>
    /\ registry_before = CLEANER_ASSIGNMENTS
    /\ all_assignments = None
    /\ ExtractIdle
    /\ CleanIdle
    /\ ValidateIdle
    /\ FrameIdle
    /\ SettingsIdle
    /\ BatchIdle

registry_rest == <<extract_vars, clean_vars, validate_vars, frame_vars, settings_vars, batch_vars>>

Call(op, element, cleaner_type) ==
    [op |-> op, element |-> element, cleaner_type |-> cleaner_type]

AddCleanerAssignment ==
    /\ Len(registry_calls) < MaxCalls
    /\ \E element \in CalledElements, cleaner_type \in AddedTypes :
          /\ registry' = AddCleanerAssignmentTo(registry, element, cleaner_type)
          /\ registry_calls' = Append(registry_calls, Call("add", element, cleaner_type))
    /\ registry_before' = registry
    /\ UNCHANGED <<all_assignments, registry_rest>>

RemoveCleanerAssignment ==
    /\ Len(registry_calls) < MaxCalls
    /\ \E element \in CalledElements :
          /\ registry' = RemoveCleanerAssignmentFrom(registry, element)
          /\ registry_calls' = Append(registry_calls, Call("remove", element, "none"))
    /\ registry_before' = registry
    /\ UNCHANGED <<all_assignments, registry_rest>>

GetAllAssignments ==
    /\ Len(registry_calls) < MaxCalls
    /\ all_assignments' = Some(DictCopy(registry))
    /\ registry_calls' = Append(registry_calls, Call("get_all", <<>>, "none"))
    /\ registry_before' = registry
    /\ UNCHANGED <<registry, registry_rest>>

(* the caller assigns to a key of the dictionary it was given, or deletes  *)
(* one; the registry changes with it only when the two are one object      *)
MutateReturnedDict ==
    /\ Len(registry_calls) < MaxCalls
    /\ all_assignments # None
    /\ \E element \in CalledElements, cleaner_type \in AddedTypes \cup {"none"} :
          LET given == Get(all_assignments)
              items == IF cleaner_type = "none"
                       THEN {a \in given.items : a[1] # UpperCase(element)}
                       ELSE AddCleanerAssignmentTo(given.items, element, cleaner_type)
          IN  /\ all_assignments' = Some([given EXCEPT !.items = items])
              /\ registry' = IF given.shared THEN items ELSE registry
              /\ registry_calls' = Append(registry_calls, Call("mutate", element, cleaner_type))
    /\ registry_before' = registry
    /\ UNCHANGED registry_rest

NextRegistry ==
    \/ AddCleanerAssignment
    \/ RemoveCleanerAssignment
    \/ GetAllAssignments
    \/ MutateReturnedDict

SpecRegistry == InitRegistry /\ [][NextRegistry]_vars



(***************************************************************************)
(* Vocabulary of the properties of extract_from_document                   *)
(***************************************************************************)
AfterPatterns == text # <<>> /\ pc \in {"names", "map", "dedup", "done"}

Indices(extractions) == 1..Len(extractions)

Matched(r) == ~IsNone(r.extraction_order)

AllNull(r) ==
    /\ IsNone(r.value)
    /\ IsNone(r.extraction_order)
    /\ IsNone(r.extraction_position)
    /\ IsNone(r.end_position)

(* the element a record was extracted for, whatever it was renamed to *)
Origin(r) == IF IsNone(r.original_element) THEN r.element
             ELSE Get(r.original_element)

(* the pattern can be compiled and matches somewhere in the text *)
HasMatch(t, pattern) ==
    /\ pattern.compiles
    /\ \E pos \in 0..Len(t) : MatchAt(t, pattern, pos)

ActiveElements == SeqToSet(active_patterns)

(* the patterns configured for an element; empty if it has none *)
ConfiguredPatterns(e) ==
    IF e \in DOMAIN patterns_dict /\ patterns_dict[e].type \in {"str", "list"}
    THEN patterns_dict[e].patterns ELSE <<>>

(* index of the first pattern of the list that matches the text, or 0 *)
FirstMatching(t, patterns) ==
    IF \E k \in 1..Len(patterns) : HasMatch(t, patterns[k])
    THEN CHOOSE k \in 1..Len(patterns) :
            /\ HasMatch(t, patterns[k])
            /\ \A j \in 1..(k - 1) : ~HasMatch(t, patterns[j])
    ELSE 0

CallsFor(e) == LET IsE(c) == c.element = e IN SelectSeq(calls, IsE)

RecordsOf(extractions, e) ==
    LET IsE(r) == r.element = e IN SelectSeq(extractions, IsE)

(***************************************************************************)
(* C2: the patterns of an element are evaluated in list order, evaluation  *)
(* stops at the first pattern with a match, every record of the element    *)
(* is a match of that one pattern, and no later pattern is evaluated.      *)
(***************************************************************************)
C2_FirstMatchWins ==
    AfterPatterns =>
      \A e \in ActiveElements :
        LET patterns == ConfiguredPatterns(e)
            first == FirstMatching(text, patterns)
            log == CallsFor(e)
        IN  /\ \A i \in 1..Len(log) : log[i].index = i
            /\ Len(log) = (IF first = 0 THEN Len(patterns) ELSE first)
            /\ \A i \in 1..Len(log) : (log[i].found > 0) <=> (i = first)
            /\ pc = "names" =>
                 LET rs == RecordsOf(all_extractions, e)
                 IN  IF first = 0 THEN \A i \in 1..Len(rs) : ~Matched(rs[i])
                     ELSE /\ Len(rs) = log[first].found
                          /\ \A i \in 1..Len(rs) :
                               /\ Matched(rs[i])
                               /\ MatchAt(text, patterns[first],
                                          Get(rs[i].extraction_position))
                               /\ Get(rs[i].end_position) =
                                    Get(rs[i].extraction_position) + Width(patterns[first])

(* both patterns of DOB match the text, and only the first was evaluated *)
C2_Witness ==
    /\ pc = "names"
    /\ "DOB" \in ActiveElements
    /\ HasMatch(text, P_d) /\ HasMatch(text, P_b)
    /\ Len(CallsFor("DOB")) = 1
    /\ RecordsOf(all_extractions, "DOB") # <<>>

(***************************************************************************)
(* C3: deduplicate_extractions acts per element: an element without a      *)
(* non-null value keeps exactly one null record; otherwise it keeps        *)
(* exactly one record for each distinct non-null value and drops its null  *)
(* records.                                                                *)
(***************************************************************************)
Elements(extractions) == {extractions[i].element : i \in Indices(extractions)}

ValuesOf(extractions, e) ==
    {extractions[i].value : i \in {j \in Indices(extractions) :
         extractions[j].element = e /\ ~IsNone(extractions[j].value)}}

DedupContract(input, output) ==
    /\ Elements(output) = Elements(input)
    /\ SeqToSet(output) \subseteq SeqToSet(input)
    /\ \A e \in Elements(input) :
         LET kept == RecordsOf(output, e)
             values == ValuesOf(input, e)
         IN  IF values = {}
             THEN Len(kept) = 1 /\ IsNone(kept[1].value)
             ELSE /\ Len(kept) = Cardinality(values)
                  /\ {kept[i].value : i \in 1..Len(kept)} = values

C3_DeduplicatePerElement ==
    [][pc = "dedup" => DedupContract(all_extractions, all_extractions')]_vars

(* three DOB matches with two distinct values were cut down to two records *)
C3_Witness ==
    /\ pc = "done"
    /\ duplicate_mappings = NoMapping
    /\ "DOB" \in ActiveElements
    /\ Len(FindIter(text, P_d)) = 3
    /\ Len(RecordsOf(all_extractions, "DOB")) = 2

(***************************************************************************)
(* C4: apply_duplicate_mappings renames exactly the records whose element  *)
(* is a key of the mapping and whose extraction_order is >= 2; a renamed   *)
(* record gets the alias as element and the old name as original_element   *)
(* and keeps every other field; all other records stay as they were.       *)
(***************************************************************************)
MappingContract(input, output, M) ==
    /\ Len(output) = Len(input)
    /\ \A i \in Indices(input) :
         LET a == input[i]
             b == output[i]
         IN  IF /\ a.element \in DOMAIN M
                /\ ~IsNone(a.extraction_order)
                /\ Get(a.extraction_order) >= 2
             THEN /\ b.element = M[a.element]
                  /\ b.original_element = Some(a.element)
                  /\ b # a
                  /\ [b EXCEPT !.element = a.element,
                               !.original_element = a.original_element] = a
             ELSE b = a

C4_RenameLaterOccurrences ==
    [][pc = "map" =>
         MappingContract(all_extractions, all_extractions', duplicate_mappings)]_vars

(* the second and the third DOB were both renamed to SDOB, the first kept *)
C4_Witness ==
    /\ pc = "dedup"
    /\ \E i, j, k \in Indices(all_extractions) :
         /\ all_extractions[i].element = "DOB"
         /\ all_extractions[i].extraction_order = Some(1)
         /\ all_extractions[j].element = "SDOB"
         /\ all_extractions[j].original_element = Some("DOB")
         /\ all_extractions[j].extraction_order = Some(2)
         /\ all_extractions[k].element = "SDOB"
         /\ all_extractions[k].original_element = Some("DOB")
         /\ all_extractions[k].extraction_order = Some(3)

(***************************************************************************)
(* C5 as claimed: for every element, an element with a duplicate mapping   *)
(* included, two matches with identical non-null values end as exactly one *)
(* returned record and two matches with distinct values both survive.      *)
(***************************************************************************)
Returned == text # <<>> /\ pc = "done"

C5_OneRecordPerValueOfAnElement ==
    Returned =>
      \A i, j \in Indices(extracted) :
        LET a == extracted[i]
            b == extracted[j]
            Survivors(v) == {k \in Indices(all_extractions) :
                               /\ Origin(all_extractions[k]) = a.element
                               /\ all_extractions[k].value = v}
        IN  (i # j /\ a.element = b.element /\ ~IsNone(a.value) /\ ~IsNone(b.value))
            => IF a.value = b.value
               THEN Cardinality(Survivors(a.value)) = 1
               ELSE Survivors(a.value) # {} /\ Survivors(b.value) # {}

(***************************************************************************)
(* C5 amended: matches are compared under the element name they carry     *)
(* after duplicate renaming.  No two returned records have the same        *)
(* element and the same non-null value, and every non-null value of a      *)
(* match is returned under the name the match carries after renaming; so   *)
(* the first and a later match of a mapped element both survive even with  *)
(* identical values.                                                       *)
(***************************************************************************)
NameAfterRenaming(m) ==
    IF /\ m.element \in DOMAIN duplicate_mappings
       /\ Matched(m)
       /\ Get(m.extraction_order) >= 2
    THEN duplicate_mappings[m.element] ELSE m.element

C5_OneRecordPerValueAfterRenaming ==
    Returned =>
      /\ \A i, j \in Indices(all_extractions) :
           (/\ i # j
            /\ all_extractions[i].element = all_extractions[j].element
            /\ ~IsNone(all_extractions[i].value))
           => all_extractions[i].value # all_extractions[j].value
      /\ \A i \in Indices(extracted) :
           ~IsNone(extracted[i].value) =>
             \E k \in Indices(all_extractions) :
               /\ all_extractions[k].element = NameAfterRenaming(extracted[i])
               /\ all_extractions[k].value = extracted[i].value

(* the same value is returned for DOB and for its alias SDOB, and a third *)
(* match with that value was dropped                                        *)
C5_Witness ==
    /\ Returned
    /\ Len(RecordsOf(extracted, "DOB")) = 3
    /\ \E i, j \in Indices(all_extractions) :
         /\ all_extractions[i].element = "DOB"
         /\ all_extractions[j].element = "SDOB"
         /\ all_extractions[j].original_element = Some("DOB")
         /\ all_extractions[i].value = all_extractions[j].value
    /\ Cardinality({k \in Indices(all_extractions) :
                       Origin(all_extractions[k]) = "DOB"}) = 2

(***************************************************************************)
(* C6 as claimed: in the returned records, the extraction_order values of  *)
(* every element with matched records are exactly 1..k.                    *)
(***************************************************************************)
MatchedOf(extractions, e) ==
    LET IsME(r) == r.element = e /\ Matched(r) IN SelectSeq(extractions, IsME)

OrdersOf(rs) == {Get(rs[i].extraction_order) : i \in 1..Len(rs)}

C6_ReturnedOrdersContiguous ==
    Returned =>
      \A e \in Elements(all_extractions) :
        LET rs == MatchedOf(all_extractions, e)
        IN  OrdersOf(rs) = 1..Len(rs)

(***************************************************************************)
(* C6 amended: before renaming and deduplication the matched records of    *)
(* an element carry the orders 1..k in the order they were found (for a    *)
(* pattern in document-scan order).  Renaming and deduplication leave the  *)
(* order of a record as it is, so the returned records of one origin have  *)
(* pairwise distinct orders out of 1..k, possibly with gaps.               *)
(***************************************************************************)
C6_OrdersContiguousBeforeRenaming ==
    (text # <<>> /\ pc \in {"map", "dedup", "done"}) =>
      /\ \A e \in Elements(extracted) :
           LET rs == MatchedOf(extracted, e)
           IN  /\ \A i \in 1..Len(rs) : rs[i].extraction_order = Some(i)
               /\ e # "NAME" =>
                    \A i \in 1..(Len(rs) - 1) :
                      Get(rs[i].end_position) <= Get(rs[i + 1].extraction_position)
      /\ pc = "done" =>
           /\ \A k \in Indices(all_extractions) :
                \E i \in Indices(extracted) :
                  /\ extracted[i].element = Origin(all_extractions[k])
                  /\ extracted[i].extraction_order = all_extractions[k].extraction_order
                  /\ extracted[i].extraction_position = all_extractions[k].extraction_position
                  /\ extracted[i].value = all_extractions[k].value
           /\ \A k, l \in Indices(all_extractions) :
                (/\ k # l
                 /\ Origin(all_extractions[k]) = Origin(all_extractions[l])
                 /\ Matched(all_extractions[k]))
                => all_extractions[k].extraction_order # all_extractions[l].extraction_order

(* three DOB matches were numbered 1..3, and DOB is returned with the     *)
(* orders 1 and 3 only                                                     *)
C6_Witness ==
    /\ Returned
    /\ duplicate_mappings = NoMapping
    /\ OrdersOf(MatchedOf(extracted, "DOB")) = {1, 2, 3}
    /\ OrdersOf(MatchedOf(all_extractions, "DOB")) = {1, 3}

(***************************************************************************)
(* C7 as claimed: among the records of one element, extraction_position    *)
(* does not decrease as extraction_order increases, NAME records of        *)
(* different anchor pairs included.                                        *)
(***************************************************************************)
PositionsFollowOrders(a, b) ==
    (Matched(a) /\ Matched(b)
       /\ Get(a.extraction_order) < Get(b.extraction_order))
    => Get(a.extraction_position) <= Get(b.extraction_position)

C7_PositionsMonotonePerElement ==
    \A i, j \in Indices(all_extractions) :
      all_extractions[i].element = all_extractions[j].element
      => PositionsFollowOrders(all_extractions[i], all_extractions[j])

(***************************************************************************)
(* C7 amended: extraction_position does not decrease as extraction_order   *)
(* increases among the records one pattern list produced for an element,   *)
(* and among the NAME records of one anchor pair.                          *)
(***************************************************************************)
SameRun(a, b) ==
    /\ Origin(a) = Origin(b)
    /\ a.start_anchor = b.start_anchor
    /\ a.stop_anchor = b.stop_anchor

C7_PositionsMonotonePerRun ==
    \A i, j \in Indices(all_extractions) :
      SameRun(all_extractions[i], all_extractions[j])
      => PositionsFollowOrders(all_extractions[i], all_extractions[j])

(* two NAME records of one anchor pair follow each other in the text, and *)
(* a NAME record of the other pair has a lower order at a higher position  *)
C7_Witness ==
    /\ pc = "map"
    /\ \E i, j, k \in Indices(all_extractions) :
         LET a == all_extractions[i]
             b == all_extractions[j]
             c == all_extractions[k]
         IN  /\ a.element = "NAME" /\ b.element = "NAME" /\ c.element = "NAME"
             /\ Matched(a) /\ Matched(b) /\ Matched(c)
             /\ SameRun(a, b)
             /\ Get(a.extraction_order) < Get(b.extraction_order)
             /\ Get(a.extraction_position) < Get(b.extraction_position)
             /\ ~SameRun(c, a)
             /\ Get(c.extraction_order) < Get(a.extraction_order)
             /\ Get(c.extraction_position) > Get(a.extraction_position)

(***************************************************************************)
(* C8: for a non-empty text, an active element none of whose patterns      *)
(* matches, or that has no pattern configured, yields exactly one record,  *)
(* with value, order, position and end all null.  The record is also what  *)
(* is returned for the element, unless duplicate renaming moved records    *)
(* of another element under its name.                                      *)
(***************************************************************************)
RenamedTo(e) ==
    \E k \in Indices(all_extractions) :
      /\ all_extractions[k].element = e
      /\ ~IsNone(all_extractions[k].original_element)

C8_NullRecordWhenNothingMatches ==
    text # <<>> =>
      \A e \in ActiveElements :
        FirstMatching(text, ConfiguredPatterns(e)) = 0 =>
          LET rs == RecordsOf(all_extractions, e)
          IN  /\ pc \in {"names", "map"} => (Len(rs) = 1 /\ AllNull(rs[1]))
              /\ (pc \in {"dedup", "done"} /\ ~RenamedTo(e))
                   => (Len(rs) = 1 /\ AllNull(rs[1]))

(* EIN has no pattern and neither DOB pattern matches: one null record each *)
C8_Witness ==
    /\ Returned
    /\ "EIN" \in ActiveElements
    /\ "DOB" \in ActiveElements
    /\ FirstMatching(text, ConfiguredPatterns("DOB")) = 0
    /\ \A e \in {"EIN", "DOB"} :
         LET rs == RecordsOf(all_extractions, e)
         IN  Len(rs) = 1 /\ AllNull(rs[1])

(***************************************************************************)
(* Vocabulary of the claims about clean_value                              *)
(***************************************************************************)
Cleaned == clean_pc \in {"cleaned", "recleaned"}

CleanedDate == Cleaned /\ GetCleanerType(new_row.element) = "date"

(* the formats of clean_date with a %y directive, and the two digits the   *)
(* directive reads: the last two characters, or the first two for %y/%m/%d *)
TwoDigitYearFormats == {2, 4, 6}

YearToken(raw_value, format) ==
    LET s == DateStr(raw_value)
    IN  IF format = 6 THEN SubSeq(s, 1, 2) ELSE SubSeq(s, Len(s) - 1, Len(s))

(* month, day and year of a date printed as MM/DD/YYYY *)
OutMonth(c) == ToNat(SubSeq(c, 1, 2))
OutDay(c) == ToNat(SubSeq(c, 4, 5))
OutYear(c) == ToNat(SubSeq(c, 7, Len(c)))

IsCanonicalDate(c) ==
    /\ Len(c) = 10
    /\ \A i \in 1..10 : IF i \in {3, 6} THEN c[i] = "/" ELSE IsDigit(c[i])

(* a two-digit token is read as 20yy for 00-68 and as 19yy for 69-99 *)
TwoDigitYearRule(d) ==
    d.format \in TwoDigitYearFormats =>
        LET yy == ToNat(YearToken(new_row.value, d.format))
        IN  /\ d.year = (IF yy <= 68 THEN 2000 + yy ELSE 1900 + yy)
            /\ new_row.cleaned_value # None
            /\ OutYear(Get(new_row.cleaned_value)) \in 1928..2027

Examples ==
    /\ new_row.value = <<"0", "1", "/", "1", "5", "/", "3", "5">> => new_row.cleaned_value = Some(<<"0", "1", "/", "1", "5", "/", "1", "9", "3", "5">>)
    /\ new_row.value = <<"0", "1", "/", "1", "5", "/", "2", "6">> => new_row.cleaned_value = Some(<<"0", "1", "/", "1", "5", "/", "2", "0", "2", "6">>)

(* the date d is printed with the given year *)
PrintedWithYear(d, year) ==
    /\ new_row.cleaned_value # None
    /\ IsCanonicalDate(Get(new_row.cleaned_value))
    /\ OutMonth(Get(new_row.cleaned_value)) = d.month
    /\ OutDay(Get(new_row.cleaned_value)) = d.day
    /\ OutYear(Get(new_row.cleaned_value)) = year

LeapDayLost(d) == d.month = 2 /\ d.day = 29 /\ ~IsLeap(d.year - 100)

C10_CleanValueIdempotent ==
    clean_pc = "recleaned" => recleaned = new_row.cleaned_value

(***************************************************************************)
(* Vocabulary of the claims about validate_extractions                     *)
(***************************************************************************)
Validated == validate_pc = "done" /\ batch # <<>>

(* the rows of the document of row i, with their index *)
DocumentOf(i) == DocGroup(batch, batch[i].source, batch[i].filename)

(* at least one rule pass appended a flag to row i: the five passes, run   *)
(* on the document of the row and on the row                               *)
Flagged(i) ==
    LET passes ==
            CheckDateLogic(DocumentOf(i), validation_config)
            \o CheckWithinDocumentGaps(DocumentOf(i), validation_config)
            \o CheckPositionalOutliers(batch[i], i, batch, validation_config)
            \o CheckMultipleExtractions(batch[i], i)
            \o CheckValueReasonableness(batch[i], i, validation_config, clock)
    IN  \E k \in 1..Len(passes) : passes[k].idx = i

(***************************************************************************)
(* C1: after validate_extractions on a non-empty batch, every row has      *)
(* confidence LOW if and only if a rule pass appended a flag to it, and    *)
(* HIGH otherwise; a row is flagged exactly when its flags column is not   *)
(* empty.                                                                  *)
(***************************************************************************)
C1_LowIffFlagged ==
    Validated =>
        /\ Len(result_df) = Len(batch)
        /\ \A i \in 1..Len(result_df) :
              LET flagged == Flagged(i)
              IN  /\ result_df[i].confidence \in {"LOW", "HIGH"}
                  /\ result_df[i].confidence = "LOW" <=> flagged
                  /\ result_df[i].confidence = "HIGH" <=> ~flagged
                  /\ result_df[i].flags # <<>> <=> flagged

(* a batch with a row that two passes flagged and a row without a flag *)
C1_Witness ==
    /\ Validated
    /\ \E i, j \in 1..Len(result_df) :
          /\ result_df[i].confidence = "LOW"
          /\ Len(result_df[i].flag_reasons) >= 2
          /\ result_df[j].confidence = "HIGH"
          /\ result_df[j].flags = <<>>

(***************************************************************************)
(* Vocabulary of the claims about the numeric cleaners                     *)
(***************************************************************************)
(* clean_value handed the row to clean_dollar_amount: a dollar element     *)
(* whose raw value holds "$" and no "%"                                    *)
DollarAmountCleaned ==
    /\ Cleaned
    /\ GetCleanerType(new_row.element) = "dollar"
    /\ Contains(new_row.value, <<"$">>)
    /\ ~Contains(new_row.value, <<"%">>)

(* the raw value without "$", commas and whitespace *)
AmountText(raw_value) == ReSubClass(DollarNoise, <<>>, Strip(raw_value))

WrappedInParentheses(raw_value) ==
    LET s == Strip(raw_value)
    IN  Len(s) >= 2 /\ s[1] = "(" /\ s[Len(s)] = ")"

(* a minus sign in front of the amount, before or after the "$" *)
LeadingMinus(raw_value) ==
    LET s == AmountText(raw_value)
    IN  s # <<>> /\ s[1] = "-"

(* a printed number with a minus sign, and the number without its sign *)
PrintedNegative(c) == c # <<>> /\ c[1] = "-"
Magnitude(c) == IF PrintedNegative(c) THEN Tail(c) ELSE c

(* the numeric value of the raw value without "$", commas, whitespace,     *)
(* parentheses and sign, to two places                                     *)
UnsignedAmount(raw_value) ==
    LET x == ParseFloat(ReSubClass(Parens, <<>>, AmountText(raw_value)))
    IN  Fixed2([Get(x) EXCEPT !.neg = FALSE])

(* the amount is not zero: the sign of a zero says nothing *)
NonZeroAmount(raw_value) ==
    Get(ParseFloat(ReSubClass(Parens, <<>>, AmountText(raw_value)))).m # 0

(***************************************************************************)
(* C11 as stated: clean_dollar_amount returns a negative amount whenever   *)
(* the raw value is wrapped in parentheses or carries a leading minus      *)
(* sign, a non-negative amount for a raw value with neither, and the       *)
(* magnitude is the numeric value left after removing "$", commas and      *)
(* whitespace.                                                             *)
(* Not an invariant: clean_dollar_amount("-$5") is "5.00", the sign being  *)
(* applied by float() and once more by the is_negative branch.             *)
(***************************************************************************)
C11_NegativeIffParenthesesOrMinus ==
    DollarAmountCleaned /\ new_row.cleaned_value # None =>
        LET c == Get(new_row.cleaned_value)
            marked == WrappedInParentheses(new_row.value) \/ LeadingMinus(new_row.value)
        IN  /\ (NonZeroAmount(new_row.value) /\ marked) => PrintedNegative(c)
            /\ (NonZeroAmount(new_row.value) /\ ~marked) => ~PrintedNegative(c)
            /\ Magnitude(c) = UnsignedAmount(new_row.value)

(* clean_value has cleaned a row whose element has the given type and      *)
(* returned a value                                                        *)
CleanedAs(cleaner_type) ==
    /\ Cleaned
    /\ GetCleanerType(new_row.element) = cleaner_type
    /\ new_row.cleaned_value # None

(* a printed number: an optional minus sign, digits, a point, digits *)
IsNumericString(c) ==
    LET u == Magnitude(c)
    IN  /\ Cardinality(Dots(u)) = 1
        /\ \A i \in 1..Len(u) : i \in Dots(u) \/ IsDigit(u[i])
        /\ \A i \in Dots(u) : 1 < i /\ i < Len(u)

(* the number of characters after the point *)
DigitsAfterPoint(c) == Len(c) - (CHOOSE i \in Dots(c) : TRUE)

C12_Examples ==
    /\ new_row.value = <<"$", "1", ",", "2", "3", "4", ".", "5", "6">>
          => new_row.cleaned_value = Some(<<"1", "2", "3", "4", ".", "5", "6">>)
    /\ new_row.value = <<"$", "1", "0", "0">>
          => new_row.cleaned_value = Some(<<"1", "0", "0", ".", "0", "0">>)

CleanedPercentage == Cleaned /\ GetCleanerType(new_row.element) = "percentage"

(* float() of the raw value without "%" and whitespace, and without commas *)
(* and whitespace; None when float() raises                                *)
PercentNumber(raw_value) == ParseFloat(ReSubClass(PercentNoise, <<>>, Strip(raw_value)))
PlainNumber(raw_value) == ParseFloat(ReSubClass(DecimalNoise, <<>>, Strip(raw_value)))

(* the number, divided by 100 or not, as str() prints it; null for None *)
PrintedHundredth(x) == IF x = None THEN None ELSE Some(FloatStr([Get(x) EXCEPT !.k = @ + 2]))
PrintedAsIs(x) == IF x = None THEN None ELSE Some(FloatStr(Get(x)))

C13_Examples ==
    /\ new_row.value = <<"5", "0", "%">> => new_row.cleaned_value = Some(<<"0", ".", "5">>)
    /\ new_row.value = <<"1", "2", ".", "5", "%">>
          => new_row.cleaned_value = Some(<<"0", ".", "1", "2", "5">>)

(***************************************************************************)
(* C13 as stated: for an element of type percentage, clean_value returns   *)
(* the parsed numeric value divided by 100 for every parsable raw value,   *)
(* whether or not it carries a "%", and null for unparsable input.         *)
(* Not an invariant: clean_value("5", "TAX_RATE") is "5.0", not "0.05".    *)
(***************************************************************************)
C13_PercentageAlwaysDividedBy100 ==
    CleanedPercentage =>
        /\ new_row.cleaned_value = PrintedHundredth(PercentNumber(new_row.value))
        /\ C13_Examples

(***************************************************************************)
(* C13, amended: for an element of type percentage, a raw value with a "%" *)
(* comes out as the number left after removing "%" and whitespace divided  *)
(* by 100; a raw value without "%" comes out as the number left after      *)
(* removing commas and whitespace, not divided; both are null when the     *)
(* rest is not a number.                                                   *)
(***************************************************************************)
C13_DividedBy100WithPercentSign ==
    CleanedPercentage =>
        /\ Contains(new_row.value, <<"%">>)
              => new_row.cleaned_value = PrintedHundredth(PercentNumber(new_row.value))
        /\ ~Contains(new_row.value, <<"%">>)
              => new_row.cleaned_value = PrintedAsIs(PlainNumber(new_row.value))
        /\ C13_Examples

(* "12.5%" of a percentage element has been cleaned to "0.125" *)
C13_Witness ==
    /\ CleanedPercentage
    /\ new_row.value = <<"1", "2", ".", "5", "%">>
    /\ new_row.cleaned_value = Some(<<"0", ".", "1", "2", "5">>)

(***************************************************************************)
(* Vocabulary of the claim about get_cleaner_type                          *)
(***************************************************************************)
ToLower(c) ==
    IF IsUpper(c) THEN LowerChars[CHOOSE i \in 1..26 : UpperChars[i] = c] ELSE c

LowerCase(s) == [i \in 1..Len(s) |-> ToLower(s[i])]

CleanerTypes == {"date", "dollar", "percentage", "decimal", "string", "name", "passthrough"}

(* the order in which the keyword groups are consulted *)
GroupOrder == <<"date", "dollar", "percentage", "decimal", "name", "string">>

(* the types the explicit table holds for the element name, upper-cased *)
ExplicitEntries(element) ==
    {a[2] : a \in {b \in CLEANER_ASSIGNMENTS : b[1] = UpperCase(element)}}

(* the keyword groups with a keyword that occurs in the element name *)
MatchingGroups(element) ==
    {k \in 1..Len(KEYWORD_ASSIGNMENTS) :
        \E i \in 1..Len(KEYWORD_ASSIGNMENTS[k].keywords) :
            Contains(UpperCase(element), KEYWORD_ASSIGNMENTS[k].keywords[i])}

FirstGroup(groups) == CHOOSE k \in groups : \A j \in groups : k <= j

(***************************************************************************)
(* C14: get_cleaner_type returns one of the seven types for every element  *)
(* name and the same type for every spelling of the name in upper or lower *)
(* case; it returns the explicit table entry when there is one, otherwise  *)
(* the type of the first keyword group, in the order date, dollar,         *)
(* percentage, decimal, name, string, with a keyword that occurs in the    *)
(* name, otherwise "string"; "passthrough" comes from an explicit entry    *)
(* only.                                                                   *)
(***************************************************************************)
C14_ExplicitThenKeywordThenString ==
    Cleaned =>
        LET element == new_row.element
            cleaner_type == GetCleanerType(element)
            explicit == ExplicitEntries(element)
            groups == MatchingGroups(element)
        IN  /\ cleaner_type \in CleanerTypes
            /\ GetCleanerType(UpperCase(element)) = cleaner_type
            /\ GetCleanerType(LowerCase(element)) = cleaner_type
            /\ \A k \in 1..Len(KEYWORD_ASSIGNMENTS) :
                  KEYWORD_ASSIGNMENTS[k].cleaner_type = GroupOrder[k]
            /\ explicit # {} => explicit = {cleaner_type}
            /\ (explicit = {} /\ groups # {}) => cleaner_type = GroupOrder[FirstGroup(groups)]
            /\ (explicit = {} /\ groups = {}) => cleaner_type = "string"
            /\ cleaner_type = "passthrough" => explicit # {}

(* a row of HOURLY_RATE has been cleaned: the table types it dollar, and   *)
(* the first keyword group matching the name is percentage                 *)
C14_Witness ==
    /\ Cleaned
    /\ new_row.element = <<"H", "O", "U", "R", "L", "Y", "_", "R", "A", "T", "E">>
    /\ new_row.value = <<"$", "1", "0", "0">>
    /\ ExplicitEntries(new_row.element) = {"dollar"}
    /\ GroupOrder[FirstGroup(MatchingGroups(new_row.element))] = "percentage"
    /\ new_row.cleaned_value = Some(<<"1", "0", "0", ".", "0", "0">>)

(***************************************************************************)
(* Vocabulary of the claims about names                                    *)
(***************************************************************************)
FrameCleaned == frame_pc = "done" /\ raw_df # <<>>

(* the raw value upper-cased, without outer whitespace and with single     *)
(* spaces                                                                  *)
NormalizedName(raw_value) == UpperCase(CollapseSpaces(Strip(raw_value)))

(* the name ends with the suffix *)
EndsWith(s, suffix) ==
    Len(s) >= Len(suffix) /\ SubSeq(s, Len(s) - Len(suffix) + 1, Len(s)) = suffix

(* the values a result holds for a given name and for a family name: the   *)
(* empty string stands for a component that is not in the result           *)
ComponentOf(result, suffix) ==
    LET found == {k \in 1..Len(result) : EndsWith(result[k].component_name, suffix)}
    IN  IF found = {} THEN <<>> ELSE result[CHOOSE k \in found : TRUE].component_value

GivenName(result) == ComponentOf(result, <<"F", "N", "A", "M", "E">>)
FamilyName(result) == ComponentOf(result, <<"L", "N", "A", "M", "E">>)

(* at most a given name followed by a family name, none of them empty *)
WellFormedResult(result) ==
    /\ Len(result) <= 2
    /\ \A k \in 1..Len(result) : result[k].component_value # <<>>
    /\ Len(result) = 2 =>
          /\ EndsWith(result[1].component_name, <<"F", "N", "A", "M", "E">>)
          /\ EndsWith(result[2].component_name, <<"L", "N", "A", "M", "E">>)
    /\ Len(result) = 1 =>
          \/ EndsWith(result[1].component_name, <<"F", "N", "A", "M", "E">>)
          \/ EndsWith(result[1].component_name, <<"L", "N", "A", "M", "E">>)

NamedLikeAName(frame_row) == Contains(UpperCase(frame_row.element), <<"N", "A", "M", "E">>)

(* given name and family name of a raw value as parse_name reads them,     *)
(* the empty ones left out                                                 *)
NameComponents(raw_value, reverse_order) ==
    LET name == NormalizedName(raw_value)
        tokens == SplitWords(name)
        reversed == reverse_order /\ Contains(name, <<",">>)
        given == IF reversed THEN Strip(SplitAtComma(name)[2])
                 ELSE IF tokens = <<>> THEN <<>> ELSE tokens[1]
        family == IF reversed THEN Strip(SplitAtComma(name)[1])
                  ELSE IF Len(tokens) <= 1 THEN <<>> ELSE JoinWords(Tail(tokens))
    IN  (IF given # <<>> THEN <<[suffix |-> <<"F", "N", "A", "M", "E">>, component |-> given]>>
         ELSE <<>>)
        \o (IF family # <<>> THEN <<[suffix |-> <<"L", "N", "A", "M", "E">>, component |-> family]>>
            ELSE <<>>)

(* one record per component: its element is the prefix and FNAME or LNAME, *)
(* its cleaned value the component, the rest as in the original record     *)
DerivedRecords(frame_row, prefix, components) ==
    [k \in 1..Len(components) |->
        [frame_row EXCEPT !.element = prefix \o components[k].suffix,
                          !.cleaned_value = Some(components[k].component)]]

(* one record with the element, raw value and start anchor of the original *)
OneRecordFor(frame_row, records) ==
    /\ Len(records) = 1
    /\ records[1].element = frame_row.element
    /\ records[1].value = frame_row.value
    /\ records[1].start_anchor = frame_row.start_anchor

(* the start anchor, upper-cased; the empty string for a missing anchor *)
AnchorText(frame_row) ==
    IF frame_row.start_anchor = None THEN <<>> ELSE UpperCase(Get(frame_row.start_anchor))

(* the prefixes the stated rule allows: "S" with SPOUSE in the anchor, "B" *)
(* with BENEFICIARY, "" with neither                                       *)
StatedPrefixes(anchor_upper) ==
    LET spouse == Contains(anchor_upper, <<"S", "P", "O", "U", "S", "E">>)
        beneficiary ==
            Contains(anchor_upper, <<"B", "E", "N", "E", "F", "I", "C", "I", "A", "R", "Y">>)
    IN  {p \in {<<"S">>, <<"B">>, <<>>} :
            \/ p = <<"S">> /\ spouse
            \/ p = <<"B">> /\ beneficiary
            \/ p = <<>> /\ ~spouse /\ ~beneficiary}

(* the records are what the stated rule gives for the record *)
StatedRecords(frame_row, reverse_order, records) ==
    IF NamedLikeAName(frame_row) /\ frame_row.value # None
    THEN LET components == NameComponents(Get(frame_row.value), reverse_order)
         IN  /\ Len(records) \in {1, 2}
             /\ \E p \in StatedPrefixes(AnchorText(frame_row)) :
                   records = DerivedRecords(frame_row, p, components)
    ELSE OneRecordFor(frame_row, records)

(* the returned records are the stated records of each row, in row order *)
RECURSIVE StatedFrame(_, _, _)
StatedFrame(rows, reverse_order, records) ==
    IF rows = <<>> THEN records = <<>>
    ELSE \E k \in 1..Min(2, Len(records)) :
            /\ StatedRecords(Head(rows), reverse_order, SubSeq(records, 1, k))
            /\ StatedFrame(Tail(rows), reverse_order, SubSeq(records, k + 1, Len(records)))

C16_Example ==
    \A a \in {Some(<<>>), Some(<<"N", "a", "m", "e", ":">>)} :
        raw_df = <<FrameRow(<<"N", "A", "M", "E">>,
                            Some(<<"J", "o", "h", "n", " ", "S", "m", "i", "t", "h">>), a)>>
        => /\ Len(cleaned_df) = 2
           /\ cleaned_df[1].element = <<"F", "N", "A", "M", "E">>
           /\ cleaned_df[1].cleaned_value = Some(<<"J", "O", "H", "N">>)
           /\ cleaned_df[2].element = <<"L", "N", "A", "M", "E">>
           /\ cleaned_df[2].cleaned_value = Some(<<"S", "M", "I", "T", "H">>)
           /\ \A k \in {1, 2} : cleaned_df[k].value = raw_df[1].value

PrefixInCode(anchor_upper) ==
    IF Contains(anchor_upper, <<"B", "E", "N", "E", "F">>) THEN <<"B">>
    ELSE IF Contains(anchor_upper, <<"S", "P", "O", "U", "S", "E">>) THEN <<"S">>
    ELSE <<>>

(* a record that is expanded: NAME in its element, a non-empty raw value,  *)
(* a start anchor that is a string, and at least one component             *)
Expanded(frame_row, reverse_order) ==
    /\ NamedLikeAName(frame_row)
    /\ frame_row.value # None
    /\ frame_row.start_anchor # None
    /\ NameComponents(Get(frame_row.value), reverse_order) # <<>>

AmendedRecords(frame_row, reverse_order, records) ==
    IF Expanded(frame_row, reverse_order)
    THEN /\ Len(records) \in {1, 2}
         /\ records = DerivedRecords(frame_row, PrefixInCode(AnchorText(frame_row)),
                                     NameComponents(Get(frame_row.value), reverse_order))
    ELSE /\ OneRecordFor(frame_row, records)
         /\ NamedLikeAName(frame_row) => records[1].cleaned_value = None

RECURSIVE AmendedFrame(_, _, _)
AmendedFrame(rows, reverse_order, records) ==
    IF rows = <<>> THEN records = <<>>
    ELSE \E k \in 1..Min(2, Len(records)) :
            /\ AmendedRecords(Head(rows), reverse_order, SubSeq(records, 1, k))
            /\ AmendedFrame(Tail(rows), reverse_order, SubSeq(records, k + 1, Len(records)))

HasFlag(i, flag) == \E k \in 1..Len(result_df[i].flags) : result_df[i].flags[k] = flag

ReasonsFor(i, flag) ==
    {result_df[i].flag_reasons[k].value :
        k \in {n \in 1..Len(result_df[i].flag_reasons) : result_df[i].flag_reasons[n].key = flag}}

SameDocument(i, j) ==
    batch[i].source = batch[j].source /\ batch[i].filename = batch[j].filename

(* a record with a date: a date keyword in its element and a cleaned value *)
(* that parses                                                             *)
Dated(i) ==
    /\ AnyKeyword(UpperCase(batch[i].element), DateKeywords)
    /\ ValidatorParseDate(batch[i].cleaned_value) # None

DateOf(i) == Get(ValidatorParseDate(batch[i].cleaned_value))

(* record i is to be dated before record j: birth before hire, birth       *)
(* before termination, hire before termination                            *)
ShouldPrecede(i, j) ==
    LET e1 == UpperCase(batch[i].element)
        e2 == UpperCase(batch[j].element)
    IN  /\ i # j
        /\ SameDocument(i, j)
        /\ Dated(i) /\ Dated(j)
        /\ \/ IsBirth(e1) /\ IsHire(e2)
           \/ IsBirth(e1) /\ IsTermination(e2)
           \/ IsHire(e1) /\ IsTermination(e2)

(* record i is not strictly before record j although it should be *)
OutOfOrder(i, j) == ShouldPrecede(i, j) /\ ~DateLess(DateOf(i), DateOf(j))

(* the reason naming both elements and both values of the pair *)
PairReason(i, j) ==
    <<UpperCase(batch[i].element), batch[i].cleaned_value,
      UpperCase(batch[j].element), batch[j].cleaned_value>>

(***************************************************************************)
(* C17 as stated: with the date rule enabled, whenever a record that       *)
(* should be dated before another record of its document (birth before     *)
(* hire, birth before termination, hire before termination) is not         *)
(* strictly before it, that record carries date_logic_violation with a     *)
(* reason naming both elements and both values of the pair; a record that  *)
(* is in order with every such record carries no date_logic_violation.     *)
(* Not an invariant: a birth date after both the hire date and the         *)
(* termination date keeps the reason of one pair only.                     *)
(***************************************************************************)
C17_OutOfOrderPairFlaggedWithReason ==
    Validated /\ validation_config.enable_date_logic =>
        \A i \in 1..Len(batch) :
            /\ \A j \in 1..Len(batch) :
                  OutOfOrder(i, j) =>
                      /\ HasFlag(i, "date_logic_violation")
                      /\ PairReason(i, j) \in ReasonsFor(i, "date_logic_violation")
            /\ (\A j \in 1..Len(batch) : ~OutOfOrder(i, j))
                  => ~HasFlag(i, "date_logic_violation")

(* the rows of the batch in the (source, element) group of row i that have *)
(* a position                                                              *)
GroupOf(i) ==
    {k \in 1..Len(batch) :
        /\ batch[k].source = batch[i].source
        /\ batch[k].element = batch[i].element
        /\ batch[k].extraction_position # None}

(* the z-score of row i in its group exceeds the threshold num/den: with n *)
(* positions x of sum S, the mean is S/n and the standard deviation is the *)
(* root of the sum of (x - S/n)^2 over n-1; both sides are multiplied by   *)
(* n and squared                                                           *)
ZScoreExceeds(i, threshold) ==
    LET group == GroupOf(i)
        n == Cardinality(group)
        x == [k \in 1..Len(batch) |->
                IF k \in group THEN Get(batch[k].extraction_position) ELSE 0]
        S == SumSeq(x)
        squares == SumSeq([k \in 1..Len(batch) |->
                      IF k \in group THEN (n * x[k] - S) * (n * x[k] - S) ELSE 0])
        distance == n * x[i] - S
    IN  /\ squares > 0
        /\ distance * distance * (n - 1) * threshold.den * threshold.den
              > threshold.num * threshold.num * squares

(***************************************************************************)
(* C18: with the outlier rule enabled, a record carries positional_outlier *)
(* if and only if its position is not null, its (source, element) group    *)
(* has at least 5 positions over the complete batch, and the z-score of    *)
(* its position, |position - mean| / std with mean and std of the          *)
(* positions of the whole group, exceeds the configured threshold, 3.0 by  *)
(* default; a record of a group with fewer than 5 positions is never       *)
(* flagged.                                                                *)
(***************************************************************************)
C18_OutlierIffZScoreOverThreshold ==
    /\ DefaultConfig.positional_outlier_threshold = [num |-> 3, den |-> 1]
    /\ Validated /\ validation_config.enable_positional_outliers =>
          \A i \in 1..Len(batch) :
              /\ HasFlag(i, "positional_outlier") <=>
                    /\ batch[i].extraction_position # None
                    /\ Cardinality(GroupOf(i)) >= 5
                    /\ ZScoreExceeds(i, validation_config.positional_outlier_threshold)
              /\ Cardinality(GroupOf(i)) < 5 => ~HasFlag(i, "positional_outlier")

(* a flagged record whose group has rows of other documents after it in    *)
(* the batch                                                               *)
C18_Witness ==
    /\ Validated
    /\ validation_config.enable_positional_outliers
    /\ \E i \in 1..Len(batch) :
          /\ HasFlag(i, "positional_outlier")
          /\ \E k \in GroupOf(i) : k > i /\ batch[k].filename # batch[i].filename

(* row j comes before row i when the rows of their document are taken in  *)
(* ascending extraction_order: a smaller order first, rows without an      *)
(* order last, rows of equal order as they stand in the frame              *)
ComesBefore(j, i) ==
    LET has_j == batch[j].extraction_order # None
        has_i == batch[i].extraction_order # None
    IN  /\ SameDocument(j, i)
        /\ \/ has_j /\ ~has_i
           \/ has_j /\ has_i /\ Get(batch[j].extraction_order) < Get(batch[i].extraction_order)
           \/ /\ has_j <=> has_i
              /\ has_i => Get(batch[j].extraction_order) = Get(batch[i].extraction_order)
              /\ j < i

(* the records with a position that come before row i *)
PositionedBefore(i) ==
    {j \in 1..Len(batch) : ComesBefore(j, i) /\ batch[j].extraction_position # None}

(* the one of them that comes last: the record preceding row i *)
Preceding(i) ==
    CHOOSE j \in PositionedBefore(i) :
        \A k \in PositionedBefore(i) : k = j \/ ComesBefore(k, j)

GapTo(i, j) == Abs(Get(batch[i].extraction_position) - Get(batch[j].extraction_position))

(***************************************************************************)
(* C19: with the gap rule enabled, and the records of a document that have *)
(* a position taken in ascending extraction_order, a record carries        *)
(* within_document_position_gap if and only if the absolute difference     *)
(* between its position and the position of the record preceding it in     *)
(* that order exceeds the configured threshold, 2000 by default; the first *)
(* record of the order and a record without a position never carry it.     *)
(***************************************************************************)
C19_GapFlagOnLaterRecord ==
    /\ DefaultConfig.within_document_gap_threshold = 2000
    /\ Validated /\ validation_config.enable_within_document_gaps =>
          \A i \in 1..Len(batch) :
              /\ HasFlag(i, "within_document_position_gap") <=>
                    /\ batch[i].extraction_position # None
                    /\ PositionedBefore(i) # {}
                    /\ GapTo(i, Preceding(i)) > validation_config.within_document_gap_threshold
              /\ batch[i].extraction_position = None \/ PositionedBefore(i) = {}
                    => ~HasFlag(i, "within_document_position_gap")

(* a flagged record of order 2 whose preceding record, of order 1, stands  *)
(* after it in the frame, and the first record of the document not flagged *)
C19_Witness ==
    /\ Validated
    /\ validation_config.enable_within_document_gaps
    /\ \E i, first \in 1..Len(batch) :
          /\ HasFlag(i, "within_document_position_gap")
          /\ Preceding(i) > i
          /\ batch[i].extraction_order = Some(2)
          /\ SameDocument(first, i)
          /\ batch[first].extraction_position # None
          /\ PositionedBefore(first) = {}
          /\ ~HasFlag(first, "within_document_position_gap")

(***************************************************************************)
(* Vocabulary of the claim about a whole run                               *)
(***************************************************************************)
(* the run went through extraction, cleaning and validation *)
RunValidated == pc = "validated"

(* extraction_order of row i of the validated frame is above 1 *)
LaterExtraction(i) ==
    /\ result_df[i].extraction_order # None
    /\ Get(result_df[i].extraction_order) > 1

(* row i of the cleaned frame comes from a record that                     *)
(* apply_duplicate_mappings renamed to its alias                           *)
RenamedToAlias(i) == batch[i].original_element # None

(* the rows of the frame that come from record r of extract_from_document *)
RowsOf(r) ==
    {i \in 1..Len(batch) :
        /\ batch[i].original_element = r.original_element
        /\ batch[i].extraction_order = r.extraction_order
        /\ batch[i].extraction_position = r.extraction_position
        /\ batch[i].value = r.value}

(***************************************************************************)
(* C20: after validate_extractions a record carries multiple_extractions   *)
(* if and only if its extraction_order is above 1, so no record of order 1 *)
(* or without an order carries it, whatever rules are switched on; and     *)
(* every record that apply_duplicate_mappings renamed to an alias and      *)
(* extract_from_document returned is in the validated frame, each of its   *)
(* rows with the flag and with confidence LOW.                             *)
(***************************************************************************)
C20_LaterExtractionsFlaggedAndRenamedLow ==
    RunValidated =>
        /\ Len(result_df) = Len(batch)
        /\ \A i \in 1..Len(result_df) :
              /\ HasFlag(i, "multiple_extractions") <=> LaterExtraction(i)
              /\ (result_df[i].extraction_order = None
                    \/ result_df[i].extraction_order = Some(1))
                  => ~HasFlag(i, "multiple_extractions")
              /\ RenamedToAlias(i) =>
                    /\ HasFlag(i, "multiple_extractions")
                    /\ result_df[i].confidence = "LOW"
        /\ \A k \in 1..Len(all_extractions) :
              all_extractions[k].original_element # None =>
                  /\ RowsOf(all_extractions[k]) # {}
                  /\ \A i \in RowsOf(all_extractions[k]) :
                        result_df[i].confidence = "LOW"

(* a run with every switchable rule off: the second DOB, renamed to SDOB,  *)
(* carries the flag and is LOW, the first DOB and an element nothing was   *)
(* extracted for do not carry it and are HIGH                              *)
C20_Witness ==
    /\ RunValidated
    /\ ~validation_config.enable_value_reasonableness
    /\ ~validation_config.enable_within_document_gaps
    /\ \E i, j, k \in 1..Len(result_df) :
          /\ batch[i].original_element = Some("DOB")
          /\ result_df[i].element = <<"S", "D", "O", "B">>
          /\ result_df[i].extraction_order = Some(2)
          /\ HasFlag(i, "multiple_extractions")
          /\ result_df[i].flags = <<"multiple_extractions">>
          /\ result_df[i].confidence = "LOW"
          /\ result_df[j].element = <<"D", "O", "B">>
          /\ result_df[j].extraction_order = Some(1)
          /\ ~HasFlag(j, "multiple_extractions")
          /\ result_df[j].confidence = "HIGH"
          /\ result_df[k].extraction_order = None
          /\ ~HasFlag(k, "multiple_extractions")
          /\ result_df[k].confidence = "HIGH"

(***************************************************************************)
(* Vocabulary of the claims about the switches of the rule passes          *)
(***************************************************************************)
(* the tags in the flags of row i *)
FlagsOn(i) ==
    {result_df[i].flags[k] : k \in 1..Len(result_df[i].flags)} \ {", "}

(* the flags each rule pass raises *)
DateLogicFlags == {"date_logic_violation"}
PositionalOutlierFlags == {"positional_outlier"}
GapFlags == {"within_document_position_gap"}
MultipleExtractionFlags == {"multiple_extractions"}
ReasonablenessFlags ==
    {"date_in_future", "date_too_old", "negative_amount", "amount_too_high",
     "negative_salary", "percentage_out_of_range", "invalid_ssn_length",
     "invalid_ssn_pattern"}

(* every switch of the configuration is off *)
EverySwitchOff ==
    /\ ~validation_config.enable_date_logic
    /\ ~validation_config.enable_positional_outliers
    /\ ~validation_config.enable_within_document_gaps
    /\ ~validation_config.enable_value_reasonableness

ElementHas(i, keyword) == Contains(UpperCase(batch[i].element), keyword)

(* the cleaned value of row i without hyphens and spaces *)
SsnDigits(i) ==
    SelectSeq(Get(batch[i].cleaned_value), LAMBDA c : c \notin {"-", " "})

AllDigits(s) == \A k \in 1..Len(s) : IsDigit(s[k])

ExactlyNineDigits(s) == Len(s) = 9 /\ AllDigits(s)

NineIdenticalDigits(s) ==
    ExactlyNineDigits(s) /\ \A k \in 1..Len(s) : s[k] = s[1]

CountingSequence == <<"1", "2", "3", "4", "5", "6", "7", "8", "9">>

(* a record of an SSN element with a cleaned value, the reasonableness     *)
(* pass switched on                                                        *)
SsnRecord(i) ==
    /\ validation_config.enable_value_reasonableness
    /\ ElementHas(i, <<"S", "S", "N">>)
    /\ batch[i].cleaned_value # None

(***************************************************************************)
(* C22: a record of an SSN element with a cleaned value carries            *)
(* invalid_ssn_length if and only if the value without hyphens and spaces  *)
(* is not exactly 9 digits, and invalid_ssn_pattern if and only if that    *)
(* value is nine identical digits or 123456789; a well-formed SSN carries  *)
(* neither flag and no record carries both.                                *)
(***************************************************************************)
C22_SsnLengthAndPatternFlags ==
    Validated =>
        \A i \in 1..Len(batch) :
            SsnRecord(i) =>
                /\ HasFlag(i, "invalid_ssn_length") <=> ~ExactlyNineDigits(SsnDigits(i))
                /\ HasFlag(i, "invalid_ssn_pattern") <=>
                      (NineIdenticalDigits(SsnDigits(i)) \/ SsnDigits(i) = CountingSequence)
                /\ ~(HasFlag(i, "invalid_ssn_length") /\ HasFlag(i, "invalid_ssn_pattern"))

(* the cleaned value of row i is what clean_value makes of its raw value *)
CleanedByRegistry(i) ==
    /\ batch[i].value # None
    /\ batch[i].cleaned_value # None
    /\ batch[i].cleaned_value = CleanValue(Get(batch[i].value), batch[i].element)

(* the cleaned value of row i is a number below 0 or above 1 *)
OutsideUnitInterval(i) ==
    LET value == ParseFloat(Strip(Get(batch[i].cleaned_value)))
    IN  value # None /\ (FloatNegative(Get(value)) \/ FloatGreater(Get(value), 1))

(***************************************************************************)
(* C23: with value reasonableness on, a record cleaned by clean_value      *)
(* carries percentage_out_of_range if and only if the registry assigns its *)
(* element the percentage type and its cleaned value lies outside [0, 1];  *)
(* so a record of a dollar-typed element such as PAY_RATE never carries    *)
(* it, and a percentage cleaned from 'N%' with 0 <= N <= 100 never does.   *)
(***************************************************************************)
C23_PercentageFlagOnPercentageFieldsOnly ==
    Validated /\ validation_config.enable_value_reasonableness =>
        \A i \in 1..Len(batch) :
            CleanedByRegistry(i) =>
                (HasFlag(i, "percentage_out_of_range") <=>
                    /\ GetCleanerType(batch[i].element) = "percentage"
                    /\ OutsideUnitInterval(i))

(***************************************************************************)
(* Vocabulary of the claim about the validator's settings                  *)
(***************************************************************************)
(* the type the setting is documented with *)
WellTyped(name, v) ==
    IF name \in Switches THEN v.type = "bool"
    ELSE IF name = "positional_outlier_threshold" THEN v.type \in {"float", "int"}
    ELSE v.type = "int"

(* the file gives the setting a value of the documented type *)
ProperlySet(name) ==
    /\ config_file.kind = "table"
    /\ name \in DOMAIN config_file.validation
    /\ WellTyped(name, config_file.validation[name])

(* the setting as stored is the default, or a switch that reads as on *)
ActsAsDefault(name) ==
    IF name \in Switches THEN IsTrue(settings[name])
    ELSE settings[name] = DefaultSettings[name]

(***************************************************************************)
(* C24: once the validator is built, a setting that the configuration does *)
(* not give, or gives with a value of the wrong type, or whose file is     *)
(* missing or unreadable, has its documented default (all switches on,     *)
(* outlier threshold 3.0, gap threshold 2000, tolerance 0 days), and       *)
(* validate_extractions then returns without raising an error.             *)
(***************************************************************************)
C24_DefaultsForMissingOrMalformedSettings ==
    /\ settings_pc \in {"ready", "done"} =>
          \A name \in SettingNames :
              ~ProperlySet(name) => ActsAsDefault(name)
    /\ settings_pc = "done" => outcome = "returned"

(***************************************************************************)
(* Vocabulary of the claim about failures in a batch                       *)
(***************************************************************************)
(* the records process_all_sources holds for one file of one source *)
RecordsOfFile(source, filename) ==
    SelectSeq(orchestrated, LAMBDA x : x.source = source /\ x.filename = filename)

(* the file was processed: every active element of the source has a record *)
(* of the file under its own name                                          *)
Processed(source_folder, file) ==
    LET found == RecordsOfFile(source_folder.name, file.filename)
        active == SourceConfig(source_folder.name).active_patterns
    IN  \A k \in 1..Len(active) :
            \E n \in 1..Len(found) : found[n].record.element = active[k]

(***************************************************************************)
(* C25: no failure aborts the batch.  process_all_sources never raises; a  *)
(* source folder whose specification is missing or unreadable contributes  *)
(* no record and every other folder is processed; in a processed folder a  *)
(* file that cannot be read yields no record and every other file with     *)
(* text is processed, each active element having a record even where one   *)
(* of the patterns of another element does not compile.                    *)
(***************************************************************************)
C25_NoFailureAbortsTheBatch ==
    /\ run_state # "raised"
    /\ run_state = "returned" =>
          \A k \in 1..Len(plan_folder.source_folders) :
              LET source_folder == plan_folder.source_folders[k]
              IN  \A n \in 1..Len(source_folder.files) :
                      LET file == source_folder.files[n]
                      IN  IF source_folder.toml = "ok" /\ file.readable
                             /\ file.content # <<>>
                          THEN Processed(source_folder, file)
                          ELSE RecordsOfFile(source_folder.name, file.filename) = <<>>

(***************************************************************************)
(* Vocabulary of the claims about flags and reasons                        *)
(***************************************************************************)
(* the tags of row i in the order they were raised *)
FlagList(i) == SelectSeq(result_df[i].flags, LAMBDA x : x # ", ")

(* the keys of the reasons of row i *)
ReasonKeys(i) ==
    {result_df[i].flag_reasons[k].key : k \in 1..Len(result_df[i].flag_reasons)}

(***************************************************************************)
(* C26: after validate_extractions the flags of a record form a set: no    *)
(* tag occurs more than once in the flags of any record.                   *)
(***************************************************************************)
C26_NoFlagTwice ==
    Validated =>
        \A i \in 1..Len(result_df) :
            \A k, n \in 1..Len(FlagList(i)) :
                FlagList(i)[k] = FlagList(i)[n] => k = n

(***************************************************************************)
(* C27: after validate_extractions the keys of flag_reasons of a record    *)
(* are the tags of its flags, whatever rule passes fired on it: every flag *)
(* has a reason and there is no reason for a flag that was not raised.     *)
(***************************************************************************)
C27_ReasonKeysAreTheFlags ==
    Validated =>
        \A i \in 1..Len(result_df) : ReasonKeys(i) = FlagsOn(i)

(* a record flagged by three passes (date order, multiple extractions,     *)
(* value reasonableness or position gap) with a reason for each, next to a *)
(* record with no flag and no reason                                       *)
C27_Witness ==
    /\ Validated
    /\ \E i, j \in 1..Len(result_df) :
          /\ Cardinality(FlagsOn(i)) >= 3
          /\ "multiple_extractions" \in FlagsOn(i)
          /\ FlagsOn(i) \cap (ReasonablenessFlags \cup GapFlags \cup DateLogicFlags) # {}
          /\ ReasonKeys(i) = FlagsOn(i)
          /\ Len(result_df[i].flag_reasons) = Cardinality(FlagsOn(i))
          /\ result_df[j].flags = <<>>
          /\ result_df[j].flag_reasons = <<>>

(***************************************************************************)
(* Vocabulary of the claim about absent and unparsed values                *)
(***************************************************************************)
(* nothing was extracted for the element of row i *)
AbsentValue(i) ==
    /\ batch[i].value = None
    /\ batch[i].extraction_order = None
    /\ batch[i].extraction_position = None

(* the raw value of row i did not clean *)
ParseFailure(i) == batch[i].value # None /\ batch[i].cleaned_value = None

(* the flags of the rules that look at the order or the position only *)
OrderAndPositionFlags ==
    PositionalOutlierFlags \cup GapFlags \cup MultipleExtractionFlags

(***************************************************************************)
(* C28: a record with a null raw value, order and position receives no     *)
(* flag from any rule pass and ends with confidence HIGH; a record whose   *)
(* raw value did not clean (cleaned_value null) is flagged by nothing but  *)
(* the rules on its order or position.                                     *)
(***************************************************************************)
C28_AbsenceAndParseFailureRaiseNoFlag ==
    Validated =>
        \A i \in 1..Len(result_df) :
            /\ AbsentValue(i) =>
                  /\ FlagsOn(i) = {}
                  /\ result_df[i].flag_reasons = <<>>
                  /\ result_df[i].confidence = "HIGH"
            /\ ParseFailure(i) => FlagsOn(i) \subseteq OrderAndPositionFlags

(* every rule on, in one document: a record with nothing extracted that    *)
(* ends HIGH, a record whose value did not clean flagged for its order and *)
(* its position only, and a flagged record with a cleaned value            *)
C28_Witness ==
    /\ Validated
    /\ validation_config = DefaultConfig
    /\ \E i, j \in 1..Len(result_df) :
          /\ AbsentValue(i)
          /\ result_df[i].confidence = "HIGH"
          /\ ParseFailure(j)
          /\ SameDocument(i, j)
          /\ FlagsOn(j) = {"multiple_extractions", "within_document_position_gap"}
          /\ result_df[j].confidence = "LOW"

(***************************************************************************)
(* Vocabulary of the claim about what extract_from_document returns        *)
(***************************************************************************)
(* extract_from_document has returned the records of a non-empty text *)
ReturnedRecords == text # <<>> /\ pc \in {"done", "stopped", "validated"}

(* record r is what renaming makes of a record the extraction produced *)
ProducedByExtraction(r) ==
    \E k \in Indices(extracted) : r = MapOne(extracted[k], duplicate_mappings)

NullAndValueTogether(e) ==
    \E i, j \in Indices(all_extractions) :
      /\ all_extractions[i].element = e
      /\ all_extractions[j].element = e
      /\ IsNone(all_extractions[i].value)
      /\ ~IsNone(all_extractions[j].value)

(***************************************************************************)
(* C29: for a non-empty text, what extract_from_document returns has at    *)
(* least one record for every active element; every returned record is a   *)
(* record the extraction produced, renamed or not; and no element has both *)
(* a null record and a record with a value.                                *)
(***************************************************************************)
C29_ReturnedRecordsCoverActiveElements ==
    ReturnedRecords =>
        /\ \A e \in ActiveElements :
              \E i \in Indices(all_extractions) : all_extractions[i].element = e
        /\ \A i \in Indices(all_extractions) :
              ProducedByExtraction(all_extractions[i])
        /\ \A i \in Indices(all_extractions) :
              ~NullAndValueTogether(all_extractions[i].element)

(* SDOB is active and matched nothing, a second DOB was renamed to SDOB:   *)
(* the blank SDOB record is gone, DOB keeps its first record and fewer     *)
(* records are returned than were extracted                                *)
C29_Witness ==
    /\ ReturnedRecords
    /\ {"DOB", "SDOB"} \subseteq ActiveElements
    /\ \E k \in Indices(extracted) :
          extracted[k].element = "SDOB" /\ IsNone(extracted[k].value)
    /\ \E i \in Indices(all_extractions) :
          /\ all_extractions[i].element = "SDOB"
          /\ all_extractions[i].original_element = Some("DOB")
          /\ ~IsNone(all_extractions[i].value)
    /\ \E i \in Indices(all_extractions) :
          /\ all_extractions[i].element = "DOB"
          /\ all_extractions[i].extraction_order = Some(1)
    /\ Len(all_extractions) < Len(extracted)

(***************************************************************************)
(* Vocabulary of the claim about the cleaner registry                      *)
(***************************************************************************)
(* the names looked up: those the calls are made with and three others *)
LookedUpElements ==
    CalledElements \cup { <<"D", "O", "B">>, <<"n", "o", "t", "e", "s">>,
                          <<"E", "I", "N">> }

Lookup(e) == GetCleanerTypeIn(registry, e)

LookupBefore(e) == GetCleanerTypeIn(registry_before, e)

SameElement(a, b) == UpperCase(a) = UpperCase(b)

(* the add and remove calls made for element e, as indices of the log *)
RegistryCallsFor(e) ==
    {k \in 1..Len(registry_calls) :
        /\ registry_calls[k].op \in {"add", "remove"}
        /\ SameElement(registry_calls[k].element, e)}

LastCallFor(e) == CHOOSE k \in RegistryCallsFor(e) : \A j \in RegistryCallsFor(e) : j <= k

LastAdded(e) ==
    RegistryCallsFor(e) # {} /\ registry_calls[LastCallFor(e)].op = "add"

LastRemoved(e) ==
    RegistryCallsFor(e) # {} /\ registry_calls[LastCallFor(e)].op = "remove"

KeywordOrDefault(e) == KeywordType(UpperCase(e), 1)

LastCall == registry_calls[Len(registry_calls)]

(* a call for one element leaves the lookups of every other name alone; a  *)
(* remove of a name without an entry and a write into the returned         *)
(* dictionary leave the registry alone                                     *)
CallsAreLocal ==
    registry_calls # <<>> =>
       /\ LastCall.op \in {"add", "remove"} =>
             \A e \in LookedUpElements :
                ~SameElement(e, LastCall.element) => Lookup(e) = LookupBefore(e)
       /\ (/\ LastCall.op = "remove"
           /\ \A a \in registry_before : a[1] # UpperCase(LastCall.element))
             => registry = registry_before
       /\ LastCall.op \in {"get_all", "mutate"} => registry = registry_before

(***************************************************************************)
(* C30, as stated: after any sequence of add and remove calls the lookup   *)
(* of e gives the type of the most recent add for e (names compared        *)
(* without case) not followed by a remove for e, and otherwise what the    *)
(* keywords or the default give; a call for one element changes the lookup *)
(* of no other name; removing a name without an entry changes nothing;     *)
(* writing into the dictionary get_all_assignments returned changes no     *)
(* lookup.                                                                 *)
(***************************************************************************)
C30_LastAddOrElseKeywords ==
    /\ \A e \in LookedUpElements :
          Lookup(e) = IF LastAdded(e)
                      THEN registry_calls[LastCallFor(e)].cleaner_type
                      ELSE KeywordOrDefault(e)
    /\ CallsAreLocal

(***************************************************************************)
(* C30, amended: the lookup of e gives the type of the most recent add for *)
(* e not followed by a remove for e; what the keywords or the default give *)
(* when the most recent call for e is a remove; and, when no add or remove *)
(* was made for e, the entry of the table the module starts with, or what  *)
(* the keywords or the default give when that table has none.  The other   *)
(* three parts are as stated.                                              *)
(***************************************************************************)
C30_LastAddOrElseTableThenKeywords ==
    /\ \A e \in LookedUpElements :
          Lookup(e) = IF LastAdded(e)
                      THEN registry_calls[LastCallFor(e)].cleaner_type
                      ELSE IF LastRemoved(e) THEN KeywordOrDefault(e)
                      ELSE GetCleanerType(e)
    /\ CallsAreLocal

(* 'url' was added over the entry the table starts with, the dictionary    *)
(* was asked for and the caller wrote into it: 'URL' is looked up as       *)
(* added, and 'notes', never touched, as the table has it                  *)
C30_Witness ==
    /\ Len(registry_calls) = 3
    /\ registry_calls[1].op = "add"
    /\ registry_calls[1].element = <<"u", "r", "l">>
    /\ registry_calls[1].cleaner_type = "date"
    /\ registry_calls[2].op = "get_all"
    /\ registry_calls[3].op = "mutate"
    /\ SameElement(registry_calls[3].element, <<"U", "R", "L">>)
    /\ registry_calls[3].cleaner_type = "dollar"
    /\ Lookup(<<"U", "R", "L">>) = "date"
    /\ Lookup(<<"n", "o", "t", "e", "s">>) = "passthrough"
    /\ KeywordOrDefault(<<"n", "o", "t", "e", "s">>) = "string"

====
